---- MODULE Spec2Model ----
(***************************************************************************)
(* Model of the quiz game's session controller: App (src/App.tsx) owns the *)
(* navigation state and mounts one GameScreen (src/unnamed/part_001) per   *)
(* session.  GameScreen is a React function component: its useState cells  *)
(* are the variables below, its event handlers and timer callbacks are the *)
(* actions, and after every handler the component re-renders and runs the  *)
(* effects whose dependencies changed (Settle), which is part of the same  *)
(* action.                                                                 *)
(*                                                                         *)
(* An item is represented by its 1-based position in the queue (its id);   *)
(* gameItems[i] is that item's isReal flag.  currentIndex is 0-based as in *)
(* the code, so the current item is gameItems[currentIndex + 1].           *)
(***************************************************************************)
EXTENDS Integers, Sequences, FiniteSets, TLC

\* ---------------------------------------------------------------- bounds
MaxItems == 2
MaxEndCalls == 2
MaxStoreOps == 4

\* ------------------------------------------------------ program constants
BASE_POINTS == 100
BONUS_POINTS == 1000
STREAK_THRESHOLD == 3
MEGA_STREAK_THRESHOLD == 7
BONUS_ROUND_QUALIFIER == 5
BONUS_SECONDS == 10

\* ReviewScreen's idle watchdog, in milliseconds
IDLE_TIMEOUT == 60000
COUNTDOWN_DURATION == 15000
THROTTLE_MS == 1000

\* The grain of the watchdog's clock: half the throttle window, which
\* divides the three durations.
TimeStep == THROTTLE_MS \div 2

\* A timer ref whose timeout is not pending (never set, cleared or fired),
\* and an elapsed time that is no longer counted.
NoTimer == 0 - 1
Never == 0 - 1

VARIABLES
  \* App
  gameState,          \* 'WELCOME' | 'PLAYING' | 'RESULTS' | 'REVIEW' | 'ADMIN'
  gameItems,          \* the shuffled queue handed to GameScreen
  userAnswers,        \* the log last handed to handleEndGame
  gameDuration,
  debugConfig,        \* [initialStreak, forceBonusRound]
  \* GameScreen
  mounted,            \* the GameScreen instance exists (also while its exit animation runs)
  currentIndex,
  timeLeft,
  answers,
  isProcessing,
  streak,
  score,
  earnedBonus,
  showBonusRound,
  bonusTimer,
  bonusItems,         \* <<real, ai>>; bonusDisplayItems is a random permutation of it
  bonusResult,        \* "none" (null) | "success" | "fail"
  pending,            \* the presentation-delay timeout:
                      \* "none" | "armed" | "ticked" | "late"
  \* ReviewScreen (idle watchdog)
  reviewMounted,      \* the ReviewScreen instance exists
  showIdleWarning,
  isWarningVisibleRef,
  idleTimerRef,       \* ms until the idle timeout fires, or NoTimer
  resetTimerRef,      \* ms until the grace timeout fires, or NoTimer
  sinceRun,           \* Date.now() - lastRun, capped above the throttle window
  \* App: the asynchronous startGame
  starting,           \* the startGame call that awaits loadGameData:
                      \* "none" | "loading" | "stale" (handleBackToHome has
                      \* run since it was issued)
  \* CustomContentManager (content store and package codec)
  dbStore,            \* the IndexedDB object store: id -> item
  localConfig,        \* the items of the bundled /game_data.json
  download,           \* the archive the last successful export handed to the
                      \* browser, with the collection it was made from
  outcome,            \* what the last store operation returned or threw
  storeOps,           \* number of store operations so far
  extension,          \* a getExtension call: its arguments and its result
  env,                \* what the last store operation met: whether
                      \* indexedDB.open succeeded, and the response to
                      \* fetch('/game_data.json')
  \* observation
  sinceHandled,       \* ms since the last activity event that passed the
                      \* throttle, capped above the throttle window
  sinceActivity,      \* ms since the last activity event, capped above the
                      \* throttle window
  idleFor,            \* ms since ReviewScreen mounted with no activity event
                      \* and no resume so far, or Never
  sinceResume,        \* ms since the last resume, capped at the two durations,
                      \* or Never
  endCalls,           \* number of onEndGame invocations of the current session
  lastCall            \* the handler that ran last, and whether it was honoured

appVars == <<gameState, gameItems, userAnswers, gameDuration, debugConfig>>
screenVars == <<mounted, currentIndex, timeLeft, answers, isProcessing, streak, score,
                earnedBonus, showBonusRound, bonusTimer, bonusItems, bonusResult,
                pending>>
ghostVars == <<sinceHandled, sinceActivity>>
wdVars == <<reviewMounted, showIdleWarning, isWarningVisibleRef, idleTimerRef,
           resetTimerRef, sinceRun, idleFor, sinceResume, ghostVars>>
storeVars == <<dbStore, localConfig, download, outcome, storeOps, env, extension>>
vars == <<appVars, screenVars, wdVars, storeVars, starting, endCalls, lastCall>>

\* let lastRun = 0: the first event is more than a throttle window later.
LongAgo == THROTTLE_MS + TimeStep

NoConfig == [initialStreak |-> 0, forceBonusRound |-> FALSE]

\* WelcomeScreen starts with the 30 s challenge selected (its 60 s option
\* differs only in the number of ticks and is left out of the inputs).
WelcomeDurations == {30}

\* AdminScreen's three test buttons: (config, duration); App substitutes 30
\* for a missing duration.
TestGames ==
  { [config |-> [initialStreak |-> 3, forceBonusRound |-> FALSE], duration |-> 30],
    [config |-> [initialStreak |-> 5, forceBonusRound |-> FALSE], duration |-> 30],
    [config |-> [initialStreak |-> 7, forceBonusRound |-> TRUE], duration |-> 5] }

\* The queue [A(real), B(not real), C(real)] of the specification's scenario.
ScenarioQueue == <<TRUE, FALSE, TRUE>>

\* What loadGameData followed by the shuffle can return: any queue of up to
\* MaxItems items, each authentic or not (the empty one included), and the
\* scenario's queue.
Queues == UNION { [1..n -> BOOLEAN] : n \in 0..MaxItems } \cup {ScenarioQueue}

\* ------------------------------------------------------------- scoring
\* Faulty variant: the handler without its lock.
AnswerIgnoredNoLock == FALSE

\* handleAnswer's first statement: the processing lock.

AnswerIgnored == isProcessing

\* Faulty variant: the new record is put in front of the log.
PrependAnswer(log, rec) == <<rec>> \o log

\* setAnswers(prev => [...prev, newAnswer])
AppendAnswer(log, rec) == Append(log, rec)

\* Faulty variant: the answer buttons stay in the bonus layout.
AnswerButtonsAlways == TRUE

\* The footer with the REAL / AI buttons is rendered when the bonus layout
\* is not shown.
AnswerButtonsShown == ~showBonusRound

\* Faulty variant: the timeout never finds a next item.
HasNextItemNever(index, length) == FALSE

\* The timeout's test: currentIndex < items.length - 1
HasNextItem(index, length) == index < length - 1

\* Faulty variant: the clock loses two seconds per tick.
TickDownByTwo(t) == t - 2

\* setTimeLeft(prev => prev - 1)
TickDown(t) == t - 1

\* Faulty variant: handleBonusAnswer without its guard.
BonusAnswerIgnoredNever == FALSE

\* handleBonusAnswer's first statement: a set result is final.
BonusAnswerIgnored == bonusResult # "none"

\* Faulty variant: "real" counts as correct whatever the item.
IsCorrectIgnoringItem(guessedReal, itemIsReal) == guessedReal

IsCorrect(guessedReal, itemIsReal) == (guessedReal = itemIsReal)

\* Faulty variant: a wrong answer keeps the streak.
NextStreakNoReset(isCorrect, oldStreak) == oldStreak + (IF isCorrect THEN 1 ELSE 0)

NextStreak(isCorrect, oldStreak) == IF isCorrect THEN oldStreak + 1 ELSE 0

\* Faulty variant: thresholds compared with > instead of >=.
MultiplierStrict(newStreak) ==
  IF newStreak > MEGA_STREAK_THRESHOLD THEN 4
  ELSE IF newStreak > STREAK_THRESHOLD THEN 2
  ELSE 1

Multiplier(newStreak) ==
  IF newStreak >= MEGA_STREAK_THRESHOLD THEN 4
  ELSE IF newStreak >= STREAK_THRESHOLD THEN 2
  ELSE 1

PointsFor(isCorrect, newStreak) ==
  IF isCorrect THEN BASE_POINTS * Multiplier(newStreak) ELSE 0

RECURSIVE SumPoints(_)
SumPoints(log) ==
  IF log = <<>> THEN 0 ELSE log[1].pointsEarned + SumPoints(Tail(log))

\* ------------------------------------------- the component as one record
\* The state of the mounted GameScreen together with its props (items,
\* debugConfig) and the App state its onEndGame prop writes.
Cur ==
  [ items |-> gameItems, debugConfig |-> debugConfig,
    currentIndex |-> currentIndex, timeLeft |-> timeLeft, answers |-> answers,
    isProcessing |-> isProcessing, streak |-> streak, score |-> score,
    earnedBonus |-> earnedBonus, showBonusRound |-> showBonusRound,
    bonusTimer |-> bonusTimer, bonusItems |-> bonusItems,
    bonusResult |-> bonusResult,
    gameState |-> gameState, userAnswers |-> userAnswers, endCalls |-> endCalls ]

\* Faulty variant: the debug streak is not taken over.
InitialScreenZeroStreak(items, duration, config) ==
  [ items |-> items, debugConfig |-> config,
    currentIndex |-> 0, timeLeft |-> duration, answers |-> <<>>,
    isProcessing |-> FALSE, streak |-> 0, score |-> 0,
    earnedBonus |-> FALSE, showBonusRound |-> FALSE,
    bonusTimer |-> BONUS_SECONDS, bonusItems |-> <<>>,
    bonusResult |-> "none",
    gameState |-> "PLAYING", userAnswers |-> <<>>, endCalls |-> 0 ]

\* useState initial values of a freshly constructed GameScreen.
InitialScreen(items, duration, config) ==
  [ items |-> items, debugConfig |-> config,
    currentIndex |-> 0, timeLeft |-> duration, answers |-> <<>>,
    isProcessing |-> FALSE, streak |-> config.initialStreak, score |-> 0,
    earnedBonus |-> FALSE, showBonusRound |-> FALSE,
    bonusTimer |-> BONUS_SECONDS, bonusItems |-> <<>>,
    bonusResult |-> "none",
    gameState |-> "PLAYING", userAnswers |-> <<>>, endCalls |-> 0 ]

\* The component's own state (what a re-render is triggered by).
ScreenView(s) ==
  <<s.currentIndex, s.timeLeft, s.answers, s.isProcessing, s.streak, s.score,
    s.earnedBonus, s.showBonusRound, s.bonusTimer, s.bonusItems, s.bonusResult>>

\* App.handleEndGame, the onEndGame prop.
handleEndGame(s, log) ==
  [s EXCEPT !.userAnswers = log, !.gameState = "RESULTS", !.endCalls = @ + 1]

\* Faulty variant: both cards are the first item of the queue.
BonusPicksFirstItem(items) ==
  IF items = <<>> THEN { [real |-> 0, ai |-> 0] } ELSE { [real |-> 1, ai |-> 1] }

\* The random draws of startBonusRound: a real item and an AI item (items[0]
\* when there is none of the kind); 0 stands for undefined (empty queue).
\* The random display order of the two cards is not part of the state.
BonusPicks(items) ==
  LET availableReal == { i \in DOMAIN items : items[i] }
      availableAI == { i \in DOMAIN items : ~items[i] }
      reals == IF availableReal # {} THEN availableReal ELSE {1} \cap DOMAIN items
      ais == IF availableAI # {} THEN availableAI ELSE {1} \cap DOMAIN items
  IN  IF reals = {} \/ ais = {} THEN { [real |-> 0, ai |-> 0] }
      ELSE [real : reals, ai : ais]

startBonusRound(cur, acc, pick) ==
  IF pick.real # 0 /\ pick.ai # 0
  THEN [acc EXCEPT
          !.bonusItems = <<pick.real, pick.ai>>,
          !.bonusTimer = BONUS_SECONDS,
          !.showBonusRound = TRUE]
  ELSE handleEndGame(acc, cur.answers)

\* Faulty variant: the bonus points are added whatever the result.
handleBonusResultAlwaysPays(acc, result, bonusAnswer) ==
  [acc EXCEPT
     !.bonusResult = result,
     !.score = @ + BONUS_POINTS,
     !.answers = @ \o bonusAnswer]

handleBonusResult(acc, result, bonusAnswer) ==
  [acc EXCEPT
     !.bonusResult = result,
     !.score = IF result = "success" THEN @ + BONUS_POINTS ELSE @,
     !.answers = @ \o bonusAnswer]

\* ---------------------------------------------------------------- effects
\* Each effect reads the values of the render it belongs to (cur) and
\* queues its state updates on acc.

\* Faulty variant: the flag follows the current streak instead of latching.
EarnedBonusEffectNoLatch(cur, acc) ==
  [acc EXCEPT !.earnedBonus = (cur.streak >= BONUS_ROUND_QUALIFIER)]

\* Faulty variant: qualification at the streak threshold 3 instead of 5.
EarnedBonusEffectAtStreak(cur, acc) ==
  IF cur.streak >= STREAK_THRESHOLD THEN [acc EXCEPT !.earnedBonus = TRUE] ELSE acc

\* useEffect [streak, earnedBonus]
EarnedBonusEffect(cur, acc) ==
  IF cur.streak >= BONUS_ROUND_QUALIFIER THEN [acc EXCEPT !.earnedBonus = TRUE] ELSE acc

\* useEffect [debugConfig]: runs on mount only, the prop never changes.
DebugEffect(cur, acc) ==
  IF cur.debugConfig.forceBonusRound THEN [acc EXCEPT !.earnedBonus = TRUE] ELSE acc

\* Faulty variant: the effect also ends the session while the bonus layout
\* is shown.
MainTimerEffectNoBonusGuard(cur, acc, pick) ==
  IF cur.timeLeft <= 0
  THEN IF cur.earnedBonus /\ ~cur.showBonusRound /\ cur.bonusResult = "none"
       THEN startBonusRound(cur, acc, pick)
       ELSE handleEndGame(acc, cur.answers)
  ELSE acc

TimerDeps(s) == <<s.timeLeft, s.answers, s.showBonusRound, s.earnedBonus, s.bonusResult>>

\* useEffect [timeLeft, onEndGame, answers, showBonusRound, earnedBonus, bonusResult]
MainTimerEffect(cur, acc, pick) ==
  IF cur.showBonusRound THEN acc
  ELSE IF cur.timeLeft <= 0
       THEN IF cur.earnedBonus /\ ~cur.showBonusRound /\ cur.bonusResult = "none"
            THEN startBonusRound(cur, acc, pick)
            ELSE handleEndGame(acc, cur.answers)
       ELSE acc   \* (re)creates the one-second interval: see MainTick

\* Faulty variant: the timeout logs a record of its own.
BonusTimerEffectLogsTimeout(cur, acc) ==
  IF ~cur.showBonusRound \/ cur.bonusResult # "none" THEN acc
  ELSE IF cur.bonusTimer <= 0
       THEN handleBonusResult(acc, "fail",
                              <<[itemId |-> cur.bonusItems[1], guessedReal |-> FALSE,
                                 isCorrect |-> FALSE, pointsEarned |-> 0]>>)
       ELSE acc

BonusDeps(s) == <<s.showBonusRound, s.bonusTimer, s.bonusResult>>

\* useEffect [showBonusRound, bonusTimer, bonusResult]
BonusTimerEffect(cur, acc) ==
  IF ~cur.showBonusRound \/ cur.bonusResult # "none" THEN acc
  ELSE IF cur.bonusTimer <= 0
       THEN handleBonusResult(acc, "fail", <<>>)
       ELSE acc   \* (re)creates the one-second interval: see BonusTick

\* One commit: the effects of render cur, in declaration order, each run
\* when the component has just mounted or one of its dependencies differs
\* from the previous render prev.
RunEffects(prev, cur, first, pick) ==
  LET a == IF first \/ <<prev.streak, prev.earnedBonus>> # <<cur.streak, cur.earnedBonus>>
           THEN EarnedBonusEffect(cur, cur) ELSE cur
      b == IF first THEN DebugEffect(cur, a) ELSE a
      c == IF first \/ TimerDeps(prev) # TimerDeps(cur)
           THEN MainTimerEffect(cur, b, pick) ELSE b
      d == IF first \/ BonusDeps(prev) # BonusDeps(cur)
           THEN BonusTimerEffect(cur, c) ELSE c
  IN  d

\* Re-render until no effect changes the component's state.
RECURSIVE Settle(_, _, _, _)
Settle(prev, cur, first, pick) ==
  LET next == RunEffects(prev, cur, first, pick)
  IN  IF ScreenView(next) = ScreenView(cur) THEN next
      ELSE Settle(cur, next, FALSE, pick)

\* The possible outcomes of committing s after prev: one per random draw
\* when the cascade runs startBonusRound (which, the queue being non-empty,
\* always shows the bonus layout), a single one otherwise.
Renders(prev, s, first) ==
  LET d == Settle(prev, s, first, CHOOSE p \in BonusPicks(s.items) : TRUE)
  IN  IF d.showBonusRound /\ ~s.showBonusRound
      THEN { Settle(prev, s, first, p) : p \in BonusPicks(s.items) }
      ELSE {d}

\* The outcomes after a handler turned the committed state Cur into s.
AfterUpdate(s) == Renders(Cur, s, FALSE)

Commit(s) ==
  /\ currentIndex' = s.currentIndex
  /\ timeLeft' = s.timeLeft
  /\ answers' = s.answers
  /\ isProcessing' = s.isProcessing
  /\ streak' = s.streak
  /\ score' = s.score
  /\ earnedBonus' = s.earnedBonus
  /\ showBonusRound' = s.showBonusRound
  /\ bonusTimer' = s.bonusTimer
  /\ bonusItems' = s.bonusItems
  /\ bonusResult' = s.bonusResult
  /\ gameState' = s.gameState
  /\ userAnswers' = s.userAnswers
  /\ endCalls' = s.endCalls

Call(op, honoured) == [op |-> op, honoured |-> honoured]

\* ------------------------------------- content store and package codec
\* A url is an inline data URL (MIME type, bytes, and whether fetch() can
\* resolve it), a package-relative path media/<id>.<ext>, some other
\* reference, or missing.
NoPath == <<0, "">>
DataUrl(mime, bytes, fetchable) ==
  [kind |-> "data", mime |-> mime, bytes |-> bytes, path |-> NoPath, ok |-> fetchable]
MediaUrl(id, ext) ==
  [kind |-> "media", mime |-> "", bytes |-> 0, path |-> <<id, ext>>, ok |-> TRUE]
OtherUrl == [kind |-> "other", mime |-> "", bytes |-> 0, path |-> NoPath, ok |-> TRUE]
NoUrl == [kind |-> "undefined", mime |-> "", bytes |-> 0, path |-> NoPath, ok |-> TRUE]

MediaItem(id, type, isReal, title, url) ==
  [id |-> id, type |-> type, isReal |-> isReal, title |-> title, url |-> url,
   isCustom |-> FALSE]

\* What AdminScreen.handleSave can hand to saveItem: fileToBase64 data URLs.
\* For the third one fetch() throws at export (a data URL the page may not
\* load or that is too long for the browser).
Uploads ==
  { MediaItem(1, "image", TRUE, "x", DataUrl("image/png", 1, TRUE)),
    MediaItem(2, "video", FALSE, "y", DataUrl("video/mp4", 2, TRUE)),
    MediaItem(1, "image", FALSE, "z", DataUrl("image/gif", 2, FALSE)) }

\* What fetch() of a media/ path gives: the server has 1.jpg, it answers
\* the request for 2.png with an error page (status 404, which fetch()
\* resolves with), and the request for any other path fails (fetch()
\* throws).  ok: a response came back; found: it is the file.
ErrorPage == 9
ServerFile(path) ==
  IF path = <<1, "jpg">>
  THEN [ok |-> TRUE, found |-> TRUE, mime |-> "image/jpeg", bytes |-> 3]
  ELSE IF path = <<2, "png">>
  THEN [ok |-> TRUE, found |-> FALSE, mime |-> "text/html", bytes |-> ErrorPage]
  ELSE [ok |-> FALSE, found |-> FALSE, mime |-> "", bytes |-> 0]

\* The bundled manifests: none, one item that shares id 1 with an upload,
\* and one that adds an item whose file cannot be fetched, an item with a
\* remote url, a second entry for id 1 and an item whose file the server
\* does not have.
LocalItem1 == MediaItem(1, "image", FALSE, "local", MediaUrl(1, "jpg"))
LocalConfigs ==
  { <<>>,
    <<LocalItem1>>,
    <<LocalItem1,
      MediaItem(3, "image", TRUE, "gone", MediaUrl(3, "png")),
      MediaItem(4, "video", FALSE, "remote", OtherUrl),
      MediaItem(1, "image", TRUE, "again", MediaUrl(1, "jpg")),
      MediaItem(2, "image", FALSE, "moved", MediaUrl(2, "png"))>> }

\* fetch(item.url) followed by res.blob(): the bytes and the blob's type.
Fetch(url) ==
  IF url.kind = "data"
  THEN [ok |-> url.ok, found |-> url.ok, mime |-> url.mime, bytes |-> url.bytes]
  ELSE IF url.kind = "media" THEN ServerFile(url.path)
  ELSE [ok |-> FALSE, found |-> FALSE, mime |-> "", bytes |-> 0]

\* A MIME type string as getExtension receives it: its lower-case essence,
\* whether it is written in upper case, and whether parameters follow
\* after a semicolon.  null and the empty string have the essence "".
MimeType(text, upper, params) == [text |-> text, upper |-> upper, params |-> params]

\* mimeType.split(';')[0].trim().toLowerCase()
CleanMime(mimeType) == mimeType.text

MIME_TO_EXT ==
  [m \in {"image/jpeg", "image/jpg", "image/png", "image/gif", "image/webp",
          "video/mp4", "video/webm"} |->
     IF m \in {"image/jpeg", "image/jpg"} THEN "jpg"
     ELSE IF m = "image/png" THEN "png"
     ELSE IF m = "image/gif" THEN "gif"
     ELSE IF m = "image/webp" THEN "webp"
     ELSE IF m = "video/mp4" THEN "mp4"
     ELSE "webm"]

\* The MIME essences getExtension is applied to: the keys of the table,
\* none, and types that are not in the table.
MimeTexts ==
  DOMAIN MIME_TO_EXT \cup
  {"", "application/octet-stream", "text/html", "image/bmp",
   "image/pjpeg", "image/x-png", "audio/mp4"}

\* String.includes for these essences and the four words the code looks
\* for.
Includes(text, word) ==
  <<text, word>> \in { <<"image/jpeg", "jpeg">>, <<"image/pjpeg", "jpeg">>,
                       <<"image/jpg", "jpg">>,
                       <<"image/png", "png">>, <<"image/x-png", "png">>,
                       <<"video/mp4", "mp4">>, <<"audio/mp4", "mp4">> }

\* Faulty variant: the table, then the default of the item type.
getExtensionTableOnly(mimeType, itemType) ==
  LET cleanMime == CleanMime(mimeType)
  IN  IF cleanMime \in DOMAIN MIME_TO_EXT THEN MIME_TO_EXT[cleanMime]
      ELSE IF itemType = "video" THEN "mp4" ELSE "jpg"

\* getExtension: the MIME table, then the partial matches, then the
\* default of the item type.
getExtension(mimeType, itemType) ==
  LET cleanMime == CleanMime(mimeType)
  IN  IF mimeType.text # "" /\ cleanMime \in DOMAIN MIME_TO_EXT THEN MIME_TO_EXT[cleanMime]
      ELSE IF mimeType.text # "" /\ (Includes(cleanMime, "jpeg") \/ Includes(cleanMime, "jpg"))
      THEN "jpg"
      ELSE IF mimeType.text # "" /\ Includes(cleanMime, "png") THEN "png"
      ELSE IF mimeType.text # "" /\ Includes(cleanMime, "mp4") THEN "mp4"
      ELSE IF itemType = "video" THEN "mp4" ELSE "jpg"

\* Faulty variant: the payload is read as an empty file.
readAsDataURLEmpty(bytes) == DataUrl("application/octet-stream", 0, TRUE)

\* mediaFile.async("blob") and FileReader.readAsDataURL: the archive keeps
\* the bytes but no MIME type, so the data URL is an octet-stream one.
readAsDataURL(bytes) == DataUrl("application/octet-stream", bytes, TRUE)

EmptyStore == [i \in {} |-> NoUrl]

\* Faulty variant: the record is stored as it was given.
saveItemAsGiven(st, item) ==
  [i \in DOMAIN st \cup {item.id} |-> IF i = item.id THEN item ELSE st[i]]

\* store.put({...item, isCustom: true}), keyPath 'id'
saveItem(st, item) ==
  [i \in DOMAIN st \cup {item.id} |->
     IF i = item.id THEN [item EXCEPT !.isCustom = TRUE] ELSE st[i]]

\* store.delete(id)
deleteItem(st, id) == [i \in DOMAIN st \ {id} |-> st[i]]

\* store.getAll(): the records in key order.
RECURSIVE StoreRecords(_, _)
StoreRecords(st, ids) ==
  IF ids = {} THEN <<>>
  ELSE LET least == CHOOSE i \in ids : \A j \in ids : i <= j
       IN  <<st[least]>> \o StoreRecords(st, ids \ {least})

\* loadLocalConfig: the bundled items, each marked custom.
loadLocalConfig(config) == [k \in DOMAIN config |-> [config[k] EXCEPT !.isCustom = TRUE]]

\* The responses to fetch('/game_data.json'): the manifest, a status that
\* is not ok, and a failed fetch or a body that is not JSON.
Responses == {"ok", "absent", "unreadable"}
Working == [opens |-> TRUE, response |-> "ok"]

\* Faulty variant: a response without manifest serves the bundled items.
LocalManifestAlways(response, config) == config

\* loadLocalConfig's guards: if (!response.ok) return [] and catch: return [].
LocalManifest(response, config) == IF response = "ok" THEN config ELSE <<>>

\* Faulty variant: a failed open goes unnoticed.
OpenFailedNever(opens) == FALSE

\* openDB: request.onerror rejects, and the await in the caller throws.
OpenFailed(opens) == ~opens

\* Map.set(item.id, item): a known key keeps its place and takes the new
\* value, a new key goes to the end.
MapSet(entries, item) ==
  IF \E k \in DOMAIN entries : entries[k].id = item.id
  THEN [k \in DOMAIN entries |-> IF entries[k].id = item.id THEN item ELSE entries[k]]
  ELSE Append(entries, item)

RECURSIVE MapSetAll(_, _)
MapSetAll(entries, items) ==
  IF items = <<>> THEN entries
  ELSE MapSetAll(MapSet(entries, Head(items)), Tail(items))

\* Faulty variant: the bundled items are set last and win.
getAllItemsLocalWins(st, config) ==
  MapSetAll(MapSetAll(<<>>, StoreRecords(st, DOMAIN st)), loadLocalConfig(config))

\* getAllItems: bundled items first, stored items over them.
getAllItems(st, config) ==
  MapSetAll(MapSetAll(<<>>, loadLocalConfig(config)), StoreRecords(st, DOMAIN st))

\* A manifest file of an archive: absent, or JSON whose items field is a
\* list, is missing, or is something else.
NoManifest == [kind |-> "absent", items |-> <<>>]
Manifest(items) == [kind |-> "list", items |-> items]

NoArchive == [exists |-> FALSE, data |-> NoManifest, game_data |-> NoManifest, media |-> {}]

\* mediaFolder.file(filename, blob): a file of that name is replaced.
ZipAdd(media, path, bytes) ==
  {f \in media : f.path # path} \cup {[path |-> path, bytes |-> bytes]}

\* Faulty variant: an empty collection is exported as well.
NothingToExportNever(allItems) == FALSE

\* exportGamePack: if (allItems.length === 0) throw
NothingToExport(allItems) == Len(allItems) = 0

\* Step 3 of exportGamePack: the items in order; one for whose data URL or
\* media/ path fetch() returned a response (res.ok is not looked at) gets
\* the response body as its file and a url pointing at it, any other keeps
\* its url.
RECURSIVE ProcessItems(_, _, _)
ProcessItems(items, processed, media) ==
  IF items = <<>> THEN [items |-> processed, media |-> media]
  ELSE LET item == Head(items)
           res == Fetch(item.url)
           ext == getExtension(MimeType(res.mime, FALSE, FALSE), item.type)
       IN  IF item.url.kind \in {"data", "media"} /\ res.ok
           THEN ProcessItems(Tail(items),
                             Append(processed, [item EXCEPT !.url = MediaUrl(item.id, ext)]),
                             ZipAdd(media, <<item.id, ext>>, res.bytes))
           ELSE ProcessItems(Tail(items), Append(processed, item), media)

\* Steps 2 to 5 of exportGamePack: the archive with the manifest under
\* both names.
BuildArchive(allItems) ==
  LET done == ProcessItems(allItems, <<>>, {})
  IN  [exists |-> TRUE, data |-> Manifest(done.items), game_data |-> Manifest(done.items),
       media |-> done.media]

\* importGamePack step 1: data.json, else game_data.json.
FindManifest(archive) ==
  IF archive.data.kind # "absent" THEN archive.data ELSE archive.game_data

\* Faulty variant: only a missing items field counts as corrupt.
CorruptFormatMissingOnly(manifest) == manifest.kind = "missing"

\* !manifest.items || !Array.isArray(manifest.items)
CorruptFormat(manifest) == manifest.kind # "list"

\* importGamePack step 2: the items in order, each saved before the next
\* is looked at; item.url.startsWith throws for an item without url.
RECURSIVE ImportItems(_, _, _, _, _)
ImportItems(items, media, st, count, opens) ==
  IF items = <<>> THEN [store |-> st, count |-> count, error |-> "none"]
  ELSE LET item == Head(items)
           failed == [store |-> st, count |-> count, error |-> "open failed"]
       IN  IF item.url.kind = "undefined"
           THEN [store |-> st, count |-> count, error |-> "TypeError"]
           ELSE IF item.url.kind = "media"
           THEN IF \E f \in media : f.path = item.url.path
                THEN LET mediaFile == CHOOSE f \in media : f.path = item.url.path
                         saved == [item EXCEPT !.url = readAsDataURL(mediaFile.bytes)]
                     IN  IF OpenFailed(opens) THEN failed
                         ELSE ImportItems(Tail(items), media, saveItem(st, saved),
                                          count + 1, opens)
                ELSE ImportItems(Tail(items), media, st, count, opens)
           ELSE IF item.url.kind = "data"
           THEN IF OpenFailed(opens) THEN failed
                ELSE ImportItems(Tail(items), media, saveItem(st, item), count + 1, opens)
           ELSE ImportItems(Tail(items), media, st, count, opens)

importGamePack(archive, st, opens) ==
  LET manifest == FindManifest(archive)
  IN  IF manifest.kind = "absent"
      THEN [store |-> st, count |-> 0,
            error |-> "Invalid Game Pack: missing data.json or game_data.json"]
      ELSE IF CorruptFormat(manifest)
      THEN [store |-> st, count |-> 0, error |-> "Invalid Game Pack: corrupt data format"]
      ELSE ImportItems(manifest.items, archive.media, st, 0, opens)

\* Archives a user can pick besides the exported one: one without manifest,
\* one without items, one whose items is not a list, one whose second item
\* has no url, and a pack with the manifest under game_data.json only.
PickedFiles ==
  [ noManifest |-> [exists |-> TRUE, data |-> NoManifest, game_data |-> NoManifest,
                    media |-> {[path |-> <<1, "jpg">>, bytes |-> 1]}],
    noItems    |-> [exists |-> TRUE, data |-> [kind |-> "missing", items |-> <<>>],
                    game_data |-> NoManifest, media |-> {}],
    notList    |-> [exists |-> TRUE, data |-> NoManifest,
                    game_data |-> [kind |-> "notlist", items |-> <<>>], media |-> {}],
    noUrl      |-> [exists |-> TRUE,
                    data |-> Manifest(<<MediaItem(2, "image", TRUE, "p", DataUrl("image/png", 1, TRUE)),
                                        MediaItem(3, "image", TRUE, "q", NoUrl),
                                        MediaItem(1, "image", FALSE, "r", DataUrl("image/png", 2, TRUE))>>),
                    game_data |-> NoManifest, media |-> {}],
    localOnly  |-> [exists |-> TRUE, data |-> NoManifest,
                    game_data |-> Manifest(<<MediaItem(2, "video", TRUE, "s", MediaUrl(2, "mp4"))>>),
                    media |-> {[path |-> <<2, "mp4">>, bytes |-> 3]}] ]

NoDownload == [archive |-> NoArchive, exported |-> <<>>]

Outcome(op, file, error, count, items, downloaded) ==
  [op |-> op, file |-> file, error |-> error, count |-> count, items |-> items,
   downloaded |-> downloaded]

ExtensionCall(mimeType, itemType, ext) ==
  [mimeType |-> mimeType, itemType |-> itemType, ext |-> ext]
NoCall == ExtensionCall(MimeType("", FALSE, FALSE), "image", "none")

\* No store operation has run.
StoreIdle ==
  /\ dbStore = EmptyStore
  /\ download = NoDownload
  /\ outcome = Outcome("none", "none", "none", 0, <<>>, FALSE)
  /\ storeOps = 0
  /\ env = Working
  /\ extension = NoCall

\* ------------------------------------------------------------------ Init
Init ==
  /\ gameState = "WELCOME"
  /\ gameItems = <<>>
  /\ userAnswers = <<>>
  /\ gameDuration = 30
  /\ debugConfig = NoConfig
  /\ mounted = FALSE
  /\ currentIndex = 0
  /\ timeLeft = 0
  /\ answers = <<>>
  /\ isProcessing = FALSE
  /\ streak = 0
  /\ score = 0
  /\ earnedBonus = FALSE
  /\ showBonusRound = FALSE
  /\ bonusTimer = BONUS_SECONDS
  /\ bonusItems = <<>>
  /\ bonusResult = "none"
  /\ pending = "none"
  /\ reviewMounted = FALSE
  /\ showIdleWarning = FALSE
  /\ isWarningVisibleRef = FALSE
  /\ idleTimerRef = NoTimer
  /\ resetTimerRef = NoTimer
  /\ sinceRun = LongAgo
  /\ starting = "none"
  /\ sinceHandled = LongAgo
  /\ sinceActivity = LongAgo
  /\ idleFor = Never
  /\ sinceResume = Never
  /\ localConfig = <<>>
  /\ StoreIdle
  /\ endCalls = 0
  /\ lastCall = Call("init", TRUE)

\* --------------------------------------------------------------- actions
\* App.startGame, with the content load complete.  An empty collection
\* sends the app to ADMIN; otherwise the queue is stored, the log cleared
\* and PLAYING entered, which constructs GameScreen and runs its mount
\* effects.
startGame(duration, config, allItems) ==
  /\ UNCHANGED <<wdVars, storeVars, starting>>
  /\ ~mounted
  /\ gameDuration' = duration
  /\ debugConfig' = config
  /\ lastCall' = Call("startGame", allItems # <<>>)
  /\ IF Len(allItems) = 0
     THEN /\ gameState' = "ADMIN"
          /\ UNCHANGED <<gameItems, userAnswers, screenVars, endCalls>>
     ELSE LET s0 == InitialScreen(allItems, duration, config)
          IN  /\ gameItems' = allItems
              /\ mounted' = TRUE
              /\ pending' = "none"
              /\ \E r \in Renders(s0, s0, TRUE) : Commit(r)

\* WelcomeScreen.handleStart -> onStart(duration)
OnStart ==
  /\ gameState = "WELCOME"
  /\ \E d \in WelcomeDurations, q \in Queues : startGame(d, NoConfig, q)

\* AdminScreen test buttons -> onTestGame(config, duration)
OnTestGame ==
  /\ gameState = "ADMIN"
  /\ \E t \in TestGames, q \in Queues : startGame(t.duration, t.config, q)

\* ResultsScreen / ReviewScreen PLAY AGAIN -> startGame(gameDuration)
OnPlayAgain ==
  /\ gameState \in {"RESULTS", "REVIEW"}
  /\ \E q \in Queues : startGame(gameDuration, NoConfig, q)

\* The REAL / AI buttons, rendered while the bonus layout is not shown.
\* The timeout the handler arms fires 1800 ms later; armed after the session
\* has ended it cannot fire before the 300 ms exit animation unmounts the
\* screen ("late").
HandleAnswer(guessedReal) ==
  /\ UNCHANGED <<wdVars, storeVars, starting>>
  /\ mounted
  /\ AnswerButtonsShown
  /\ IF AnswerIgnored
     THEN /\ lastCall' = Call("handleAnswer", FALSE)
          /\ UNCHANGED <<appVars, screenVars, endCalls>>
     ELSE   LET isCorrect == IsCorrect(guessedReal, gameItems[currentIndex + 1])
                newStreak == streak + 1
                points == PointsFor(isCorrect, newStreak)
                newAnswer == [itemId |-> currentIndex + 1, guessedReal |-> guessedReal,
                              isCorrect |-> isCorrect, pointsEarned |-> points]
                s == [Cur EXCEPT
                        !.isProcessing = TRUE,
                        !.score = IF isCorrect THEN @ + points ELSE @,
                        !.streak = NextStreak(isCorrect, streak),
                        !.answers = AppendAnswer(@, newAnswer)]
            IN  /\ \E r \in AfterUpdate(s) : Commit(r)
                /\ pending' = IF gameState = "PLAYING" THEN "armed" ELSE "late"
                /\ lastCall' = Call("handleAnswer", TRUE)
                /\ UNCHANGED <<gameItems, gameDuration, debugConfig, mounted>>

\* The setTimeout callback of handleAnswer; nothing ever clears it.  It closes over the currentIndex
\* of the answered render, which is still the current one: only this
\* callback changes currentIndex.
PresentationTimeout ==
  /\ UNCHANGED <<wdVars, storeVars, starting>>
  /\ mounted
  /\ pending \in {"armed", "ticked"}
  /\ LET s == IF HasNextItem(currentIndex, Len(gameItems))
              THEN [Cur EXCEPT !.isProcessing = FALSE, !.currentIndex = @ + 1]
              ELSE [Cur EXCEPT !.isProcessing = FALSE, !.timeLeft = 0]
     IN  \E r \in AfterUpdate(s) : Commit(r)
  /\ pending' = "none"
  /\ lastCall' = Call("presentationTimeout", TRUE)
  /\ UNCHANGED <<gameItems, gameDuration, debugConfig, mounted>>

\* The one-second interval of the main timer effect, which exists while
\* the bonus layout is not shown and timeLeft > 0.  The effect depends on
\* answers, so an answer restarts the interval: its tick comes 1000 ms
\* after the answer, and the 1800 ms timeout ("ticked") comes before the
\* next one.  When that tick ends the session, the timeout comes after the
\* 300 ms exit animation ("late").
MainTick ==
  /\ UNCHANGED <<wdVars, storeVars, starting>>
  /\ mounted
  /\ ~showBonusRound
  /\ timeLeft > 0
  /\ pending # "ticked"
  /\ \E r \in AfterUpdate([Cur EXCEPT !.timeLeft = TickDown(@)]) : Commit(r)
  /\ pending' = IF pending = "armed"
                THEN IF gameState' = "PLAYING" THEN "ticked" ELSE "late"
                ELSE pending
  /\ lastCall' = Call("mainTick", TRUE)
  /\ UNCHANGED <<gameItems, gameDuration, debugConfig, mounted>>

\* The one-second interval of the bonus timer effect.  An interval created
\* after the session has ended cannot fire within the 300 ms exit
\* animation, and one created by the tick that followed an answer cannot
\* fire before that answer's timeout.
BonusTick ==
  /\ UNCHANGED <<wdVars, storeVars, starting>>
  /\ mounted
  /\ gameState = "PLAYING"
  /\ pending \notin {"armed", "ticked"}
  /\ showBonusRound
  /\ bonusResult = "none"
  /\ bonusTimer > 0
  /\ \E r \in AfterUpdate([Cur EXCEPT !.bonusTimer = @ - 1]) : Commit(r)
  /\ lastCall' = Call("bonusTick", TRUE)
  /\ UNCHANGED <<gameItems, gameDuration, debugConfig, mounted, pending>>

\* A click on one of the two bonus cards.
HandleBonusAnswer(selectedItem) ==
  /\ UNCHANGED <<wdVars, storeVars, starting>>
  /\ mounted
  /\ showBonusRound
  /\ IF BonusAnswerIgnored
     THEN /\ lastCall' = Call("handleBonusAnswer", FALSE)
          /\ UNCHANGED <<appVars, screenVars, endCalls>>
     ELSE   LET isCorrect == ~gameItems[selectedItem]
                bonusAnswer == [itemId |-> selectedItem, guessedReal |-> FALSE,
                                isCorrect |-> isCorrect,
                                pointsEarned |-> IF isCorrect THEN BONUS_POINTS ELSE 0]
                s == handleBonusResult(Cur, IF isCorrect THEN "success" ELSE "fail",
                                       <<bonusAnswer>>)
            IN  /\ \E r \in AfterUpdate(s) : Commit(r)
                /\ lastCall' = Call("handleBonusAnswer", TRUE)
                /\ UNCHANGED <<gameItems, gameDuration, debugConfig, mounted, pending>>

\* The NEXT button, rendered once the bonus result is set.
NextClick ==
  /\ UNCHANGED <<wdVars, storeVars, starting>>
  /\ mounted
  /\ showBonusRound
  /\ bonusResult # "none"
  /\ endCalls < MaxEndCalls
  /\ Commit(handleEndGame(Cur, answers))
  /\ lastCall' = Call("next", TRUE)
  /\ UNCHANGED <<gameItems, gameDuration, debugConfig, mounted, pending>>

\* AnimatePresence mode="wait" keeps the PLAYING subtree mounted until its
\* exit animation has run, then removes it: the component's state is
\* discarded (its cells read as in Init) and the state updates of a timeout
\* still pending are dropped.
Unmount ==
  /\ UNCHANGED <<wdVars, storeVars, starting>>
  /\ mounted
  /\ gameState # "PLAYING"
  /\ mounted' = FALSE
  /\ currentIndex' = 0
  /\ timeLeft' = 0
  /\ answers' = <<>>
  /\ isProcessing' = FALSE
  /\ streak' = 0
  /\ score' = 0
  /\ earnedBonus' = FALSE
  /\ showBonusRound' = FALSE
  /\ bonusTimer' = BONUS_SECONDS
  /\ bonusItems' = <<>>
  /\ bonusResult' = "none"
  /\ pending' = "none"
  /\ lastCall' = Call("unmount", TRUE)
  /\ UNCHANGED <<appVars, endCalls>>

\* ResultsScreen REVIEW ALL
OnReview ==
  /\ UNCHANGED <<wdVars, storeVars, starting>>
  /\ ~mounted
  /\ gameState = "RESULTS"
  /\ gameState' = "REVIEW"
  /\ lastCall' = Call("onReview", TRUE)
  /\ UNCHANGED <<gameItems, userAnswers, gameDuration, debugConfig, screenVars, endCalls>>

\* WelcomeScreen admin entry
OnAdmin ==
  /\ UNCHANGED <<wdVars, storeVars, starting>>
  /\ gameState = "WELCOME"
  /\ gameState' = "ADMIN"
  /\ lastCall' = Call("onAdmin", TRUE)
  /\ UNCHANGED <<gameItems, userAnswers, gameDuration, debugConfig, screenVars, endCalls>>

\* App.handleBackToHome, wired to AdminScreen.onBack and ReviewScreen.onBackToHome
handleBackToHome ==
  /\ UNCHANGED <<wdVars, storeVars, starting>>
  /\ ~mounted
  /\ gameState \in {"ADMIN", "REVIEW"}
  /\ gameState' = "WELCOME"
  /\ lastCall' = Call("handleBackToHome", TRUE)
  /\ UNCHANGED <<gameItems, userAnswers, gameDuration, debugConfig, screenVars, endCalls>>

Next ==
  \/ OnStart
  \/ OnTestGame
  \/ OnPlayAgain
  \/ \E g \in BOOLEAN : HandleAnswer(g)
  \/ PresentationTimeout
  \/ MainTick
  \/ BonusTick
  \/ \E k \in 1..2 : k \in DOMAIN bonusItems /\ HandleBonusAnswer(bonusItems[k])
  \/ NextClick
  \/ Unmount
  \/ OnReview
  \/ OnAdmin
  \/ handleBackToHome

Spec == Init /\ [][Next]_vars

\* ------------------------------------------- sessions without user input
\* A session that is started and then left alone: the only steps are the
\* callbacks of the two setInterval timers and the removal of the screen
\* after its exit animation.  A timer that exists fires its callback, hence
\* the weak fairness of the two ticks.
UnattendedNext ==
  \/ OnStart
  \/ OnAdmin
  \/ OnTestGame
  \/ MainTick
  \/ BonusTick
  \/ Unmount

UnattendedSpec ==
  /\ Init
  /\ [][UnattendedNext]_vars
  /\ WF_vars(MainTick)
  /\ WF_vars(BonusTick)

\* ------------------------------------------------- ReviewScreen watchdog
\* The idle watchdog of ReviewScreen runs on its own clock and is checked
\* under its own specification, which starts where the screen has mounted.
gameVars == <<gameItems, userAnswers, gameDuration, debugConfig, screenVars, endCalls>>

\* Faulty variant: the grace timeout is left pending.
startIdleTimerKeepsGrace ==
  /\ idleTimerRef' = IDLE_TIMEOUT
  /\ resetTimerRef' = resetTimerRef

\* startIdleTimer: clear both timeouts, arm the idle timeout.
startIdleTimer ==
  /\ idleTimerRef' = IDLE_TIMEOUT
  /\ resetTimerRef' = NoTimer

\* handleUserActivity's first statement: the guard reads the ref.
ActivityIgnored == isWarningVisibleRef

handleUserActivity ==
  IF ActivityIgnored
  THEN /\ lastCall' = Call("activity", FALSE)
       /\ UNCHANGED <<idleTimerRef, resetTimerRef>>
  ELSE /\ lastCall' = Call("activity", TRUE)
       /\ startIdleTimer

\* Faulty variant: only the idle timeout is cleared.
CleanupIdleOnly ==
  /\ idleTimerRef' = NoTimer
  /\ resetTimerRef' = resetTimerRef

\* The cleanup of the mount effect.
Cleanup ==
  /\ idleTimerRef' = NoTimer
  /\ resetTimerRef' = NoTimer

Elapse(t) == IF t = NoTimer THEN NoTimer ELSE IF t > TimeStep THEN t - TimeStep ELSE 0

\* ReviewScreen has mounted after a session of one item that logged
\* nothing: its mount effect has attached the listeners and called
\* startIdleTimer.
\* The sessions ReviewScreen can follow: one started from the welcome
\* screen and one started by an AdminScreen test button.
WatchdogConfigs == {NoConfig, [initialStreak |-> 3, forceBonusRound |-> FALSE]}

\* App.handleBackToHome as a callback of ReviewScreen: setGameState('WELCOME').
\* A startGame call that is still awaiting its content is not cancelled.
handleBackToHomeCalled ==
  /\ gameState' = "WELCOME"
  /\ starting' = IF starting = "none" THEN "none" ELSE "stale"

WatchdogInit ==
  /\ gameState = "REVIEW"
  /\ gameItems = <<TRUE>>
  /\ userAnswers = <<>>
  /\ gameDuration = 30
  /\ debugConfig \in WatchdogConfigs
  /\ mounted = FALSE
  /\ currentIndex = 0
  /\ timeLeft = 0
  /\ answers = <<>>
  /\ isProcessing = FALSE
  /\ streak = 0
  /\ score = 0
  /\ earnedBonus = FALSE
  /\ showBonusRound = FALSE
  /\ bonusTimer = BONUS_SECONDS
  /\ bonusItems = <<>>
  /\ bonusResult = "none"
  /\ pending = "none"
  /\ endCalls = 1
  /\ reviewMounted = TRUE
  /\ showIdleWarning = FALSE
  /\ isWarningVisibleRef = FALSE
  /\ idleTimerRef = IDLE_TIMEOUT
  /\ resetTimerRef = NoTimer
  /\ sinceRun = LongAgo
  /\ starting = "none"
  /\ sinceHandled = LongAgo
  /\ sinceActivity = LongAgo
  /\ idleFor = 0
  /\ sinceResume = Never
  /\ localConfig = <<>>
  /\ StoreIdle
  /\ lastCall = Call("reviewMount", TRUE)

\* TimeStep ms pass with no timeout due.  The render that follows a state
\* change and its effects take less than that, and so does the exit
\* animation of a screen that is being left.
WatchdogTick ==
  /\ idleTimerRef # 0
  /\ resetTimerRef # 0
  /\ IF reviewMounted
     THEN gameState = "REVIEW" /\ isWarningVisibleRef = showIdleWarning
     ELSE idleTimerRef # NoTimer \/ resetTimerRef # NoTimer
  /\ idleTimerRef' = Elapse(idleTimerRef)
  /\ resetTimerRef' = Elapse(resetTimerRef)
  /\ sinceRun' = IF sinceRun < LongAgo THEN sinceRun + TimeStep ELSE LongAgo
  /\ sinceHandled' = IF sinceHandled < LongAgo THEN sinceHandled + TimeStep ELSE LongAgo
  /\ sinceActivity' = IF sinceActivity < LongAgo THEN sinceActivity + TimeStep ELSE LongAgo
  /\ idleFor' = IF idleFor = Never THEN Never ELSE idleFor + TimeStep
  /\ sinceResume' = IF sinceResume = Never THEN Never
                    ELSE IF sinceResume < IDLE_TIMEOUT + COUNTDOWN_DURATION
                    THEN sinceResume + TimeStep
                    ELSE IDLE_TIMEOUT + COUNTDOWN_DURATION
  /\ lastCall' = Call("watchdogTick", TRUE)
  /\ UNCHANGED <<gameState, gameVars, storeVars, starting, reviewMounted, showIdleWarning,
                 isWarningVisibleRef>>

\* Faulty variant: the idle timeout abandons the screen at once.
IdleTimeoutAbandons ==
  /\ idleTimerRef = 0
  /\ idleTimerRef' = NoTimer
  /\ gameState' = "WELCOME"
  /\ lastCall' = Call("graceTimeout", TRUE)
  /\ UNCHANGED <<gameVars, storeVars, starting, reviewMounted, showIdleWarning, isWarningVisibleRef,
                 resetTimerRef, sinceRun, idleFor, sinceResume, ghostVars>>

\* The callback of the idle timeout: show the warning, arm the grace
\* timeout.  A state update of an unmounted component is dropped.
IdleTimeout ==
  /\ idleTimerRef = 0
  /\ idleTimerRef' = NoTimer
  /\ showIdleWarning' = reviewMounted
  /\ resetTimerRef' = COUNTDOWN_DURATION
  /\ lastCall' = Call("idleTimeout", TRUE)
  /\ UNCHANGED <<gameState, gameVars, storeVars, starting, reviewMounted, isWarningVisibleRef, sinceRun,
                 idleFor, sinceResume, ghostVars>>

\* The callback of the grace timeout: onBackToHome(), App.handleBackToHome.
GraceTimeout ==
  /\ resetTimerRef = 0
  /\ resetTimerRef' = NoTimer
  /\ handleBackToHomeCalled
  /\ lastCall' = Call("graceTimeout", TRUE)
  /\ UNCHANGED <<gameVars, storeVars, reviewMounted, showIdleWarning, isWarningVisibleRef,
                 idleTimerRef, sinceRun, idleFor, sinceResume, ghostVars>>

\* useEffect [showIdleWarning]: the ref follows the state once the effects
\* of the render run.
SyncWarningRef ==
  /\ reviewMounted
  /\ isWarningVisibleRef # showIdleWarning
  /\ isWarningVisibleRef' = showIdleWarning
  /\ lastCall' = Call("syncWarningRef", TRUE)
  /\ UNCHANGED <<gameState, gameVars, storeVars, starting, reviewMounted, showIdleWarning, idleTimerRef,
                 resetTimerRef, sinceRun, idleFor, sinceResume, ghostVars>>

\* The window listener of the six activity events.
throttledHandler ==
  /\ reviewMounted
  /\ IF sinceRun > THROTTLE_MS
     THEN /\ handleUserActivity
          /\ sinceRun' = 0
          /\ sinceHandled' = 0
     ELSE /\ lastCall' = Call("throttled", FALSE)
          /\ UNCHANGED <<idleTimerRef, resetTimerRef, sinceRun, sinceHandled>>
  /\ sinceActivity' = 0
  /\ idleFor' = Never
  /\ UNCHANGED <<gameState, gameVars, storeVars, starting, reviewMounted, showIdleWarning, isWarningVisibleRef,
                 sinceResume>>

\* The "I'm Still Here" button of the warning.
handleResumeGame ==
  /\ reviewMounted
  /\ showIdleWarning
  /\ showIdleWarning' = FALSE
  /\ startIdleTimer
  /\ idleFor' = Never
  /\ sinceResume' = 0
  /\ lastCall' = Call("handleResumeGame", TRUE)
  /\ UNCHANGED <<gameState, gameVars, storeVars, starting, reviewMounted, isWarningVisibleRef,
                 sinceRun, ghostVars>>

\* The Home button of the footer: handleAction(onBackToHome).
HomeClick ==
  /\ reviewMounted
  /\ handleBackToHomeCalled
  /\ lastCall' = Call("home", TRUE)
  /\ UNCHANGED <<gameVars, storeVars, wdVars>>

\* App no longer renders the REVIEW subtree: the cleanup of the mount
\* effect runs and the component's state is discarded.
ReviewUnmount ==
  /\ reviewMounted
  /\ gameState # "REVIEW"
  /\ Cleanup
  /\ reviewMounted' = FALSE
  /\ showIdleWarning' = FALSE
  /\ isWarningVisibleRef' = FALSE
  /\ sinceRun' = LongAgo
  /\ sinceHandled' = LongAgo
  /\ sinceActivity' = LongAgo
  /\ lastCall' = Call("reviewUnmount", TRUE)
  /\ UNCHANGED <<gameState, gameVars, storeVars, starting, idleFor, sinceResume>>

\* The PLAY AGAIN button of the footer (covered by the warning overlay):
\* handleAction(onPlayAgain) -> App.startGame(gameDuration) up to its
\* await.  setGameDuration keeps the value; setDebugConfig(undefined)
\* re-renders App when a debug config was set, ReviewScreen then receives
\* a new onBackToHome, startIdleTimer and handleUserActivity are new
\* callbacks and the mount effect runs again: cleanup, a new throttle
\* closure (lastRun = 0) and startIdleTimer().  A screen that is being left
\* keeps its props.
PlayAgainClick ==
  /\ reviewMounted
  /\ ~showIdleWarning
  /\ starting = "none"
  /\ starting' = "loading"
  /\ debugConfig' = NoConfig
  /\ IF debugConfig # NoConfig /\ gameState = "REVIEW"
     THEN /\ startIdleTimer
          /\ sinceRun' = LongAgo
     ELSE UNCHANGED <<idleTimerRef, resetTimerRef, sinceRun>>
  /\ idleFor' = Never
  /\ lastCall' = Call("playAgain", TRUE)
  /\ UNCHANGED <<gameState, gameItems, userAnswers, gameDuration, screenVars, endCalls,
                 storeVars, reviewMounted, showIdleWarning, isWarningVisibleRef,
                 sinceResume, ghostVars>>

\* App.startGame after its await: loadGameData has returned the collection
\* (or [] when getAllItems threw).  The screen of the new state is
\* constructed when the screen that is left has finished its exit
\* animation; the watchdog is followed up to that point.
StartGameResolve(allItems) ==
  /\ starting # "none"
  /\ starting' = "none"
  /\ IF Len(allItems) = 0
     THEN /\ gameState' = "ADMIN"
          /\ UNCHANGED <<gameItems, userAnswers>>
     ELSE /\ gameItems' = allItems
          /\ userAnswers' = <<>>
          /\ gameState' = "PLAYING"
  /\ lastCall' = Call("startGame", allItems # <<>>)
  /\ UNCHANGED <<gameDuration, debugConfig, screenVars, endCalls, storeVars, wdVars>>

WatchdogNext ==
  \/ WatchdogTick
  \/ IdleTimeout
  \/ GraceTimeout
  \/ SyncWarningRef
  \/ throttledHandler
  \/ handleResumeGame
  \/ HomeClick
  \/ PlayAgainClick
  \/ \E allItems \in {<<>>, gameItems} : StartGameResolve(allItems)
  \/ ReviewUnmount

WatchdogSpec == WatchdogInit /\ [][WatchdogNext]_vars

\* --------------------------------------------- CustomContentManager
\* The content store and the package codec are checked under their own
\* specification: the operations AdminScreen calls, each with its awaits
\* completed, on the admin screen of an app that has not played yet.
StoreInit ==
  /\ gameState = "ADMIN"
  /\ gameItems = <<>>
  /\ userAnswers = <<>>
  /\ gameDuration = 30
  /\ debugConfig = NoConfig
  /\ mounted = FALSE
  /\ currentIndex = 0
  /\ timeLeft = 0
  /\ answers = <<>>
  /\ isProcessing = FALSE
  /\ streak = 0
  /\ score = 0
  /\ earnedBonus = FALSE
  /\ showBonusRound = FALSE
  /\ bonusTimer = BONUS_SECONDS
  /\ bonusItems = <<>>
  /\ bonusResult = "none"
  /\ pending = "none"
  /\ endCalls = 0
  /\ reviewMounted = FALSE
  /\ showIdleWarning = FALSE
  /\ isWarningVisibleRef = FALSE
  /\ idleTimerRef = NoTimer
  /\ resetTimerRef = NoTimer
  /\ sinceRun = LongAgo
  /\ starting = "none"
  /\ sinceHandled = LongAgo
  /\ sinceActivity = LongAgo
  /\ idleFor = Never
  /\ sinceResume = Never
  /\ localConfig \in LocalConfigs
  /\ StoreIdle
  /\ lastCall = Call("onAdmin", TRUE)

notStore == <<appVars, screenVars, wdVars, starting, endCalls, lastCall, localConfig, extension>>

\* CustomContentManager.saveItem(newItem), as AdminScreen.handleSave calls it.
SaveItem ==
  /\ storeOps < MaxStoreOps
  /\ \E item \in Uploads, opens \in BOOLEAN :
        /\ env' = [opens |-> opens, response |-> "ok"]
        /\ IF OpenFailed(opens)
           THEN /\ outcome' = Outcome("saveItem", "none", "open failed", 0, <<item>>, FALSE)
                /\ UNCHANGED dbStore
           ELSE /\ dbStore' = saveItem(dbStore, item)
                /\ outcome' = Outcome("saveItem", "none", "none", 0, <<item>>, FALSE)
  /\ storeOps' = storeOps + 1
  /\ UNCHANGED <<notStore, download>>

\* CustomContentManager.deleteItem(id), as AdminScreen.handleDelete calls it.
DeleteItem ==
  /\ storeOps < MaxStoreOps
  /\ \E id \in DOMAIN dbStore, opens \in BOOLEAN :
        /\ env' = [opens |-> opens, response |-> "ok"]
        /\ IF OpenFailed(opens)
           THEN /\ outcome' = Outcome("deleteItem", "none", "open failed", 0, <<>>, FALSE)
                /\ UNCHANGED dbStore
           ELSE /\ dbStore' = deleteItem(dbStore, id)
                /\ outcome' = Outcome("deleteItem", "none", "none", 0, <<>>, FALSE)
  /\ storeOps' = storeOps + 1
  /\ UNCHANGED <<notStore, download>>

\* CustomContentManager.getAllItems(), as AdminScreen.loadItems and
\* App.loadGameData call it.
GetAllItems ==
  /\ storeOps < MaxStoreOps
  /\ \E opens \in BOOLEAN, response \in Responses :
        /\ env' = [opens |-> opens, response |-> response]
        /\ outcome' =
             IF OpenFailed(opens)
             THEN Outcome("getAllItems", "none", "open failed", 0, <<>>, FALSE)
             ELSE Outcome("getAllItems", "none", "none", 0,
                          getAllItems(dbStore, LocalManifest(response, localConfig)), FALSE)
  /\ storeOps' = storeOps + 1
  /\ UNCHANGED <<notStore, dbStore, download>>

\* CustomContentManager.exportGamePack(), as AdminScreen.handleExport calls it.
ExportGamePack ==
  /\ storeOps < MaxStoreOps
  /\ \E opens \in BOOLEAN, response \in Responses :
        /\ env' = [opens |-> opens, response |-> response]
        /\ LET allItems == getAllItems(dbStore, LocalManifest(response, localConfig))
           IN  IF OpenFailed(opens)
               THEN /\ outcome' = Outcome("exportGamePack", "none", "open failed",
                                          0, <<>>, FALSE)
                    /\ UNCHANGED download
               ELSE IF NothingToExport(allItems)
               THEN /\ outcome' = Outcome("exportGamePack", "none", "No items to export",
                                          0, <<>>, FALSE)
                    /\ UNCHANGED download
               ELSE /\ download' = [archive |-> BuildArchive(allItems), exported |-> allItems]
                    /\ outcome' = Outcome("exportGamePack", "none", "none", 0, <<>>, TRUE)
  /\ storeOps' = storeOps + 1
  /\ UNCHANGED <<notStore, dbStore>>

\* CustomContentManager.importGamePack(file), as AdminScreen.handleImport
\* calls it, with the exported archive or one of the picked files.
ImportGamePack(name, file) ==
  /\ storeOps < MaxStoreOps
  /\ file.exists
  /\ \E opens \in BOOLEAN :
        LET res == importGamePack(file, dbStore, opens)
        IN  /\ env' = [opens |-> opens, response |-> "ok"]
            /\ dbStore' = res.store
            /\ outcome' = Outcome("importGamePack", name, res.error, res.count, <<>>, FALSE)
  /\ storeOps' = storeOps + 1
  /\ UNCHANGED <<notStore, download>>

StoreNext ==
  \/ SaveItem
  \/ DeleteItem
  \/ GetAllItems
  \/ ExportGamePack
  \/ ImportGamePack("download", download.archive)
  \/ \E name \in DOMAIN PickedFiles : ImportGamePack(name, PickedFiles[name])

StoreSpec == StoreInit /\ [][StoreNext]_vars

\* ---------------------------------------------------------- getExtension
\* The arguments of a getExtension call: a MIME type (every essence, in
\* either case, with or without parameters; or none) and the item type.
ExtensionInputs ==
  { ExtensionCall(MimeType(text, upper, params), itemType, "none") :
      text \in MimeTexts \ {""}, upper \in BOOLEAN, params \in BOOLEAN,
      itemType \in {"image", "video"} }
  \cup { ExtensionCall(MimeType("", FALSE, FALSE), itemType, "none") :
           itemType \in {"image", "video"} }

ExtensionInit ==
  /\ gameState = "ADMIN"
  /\ gameItems = <<>>
  /\ userAnswers = <<>>
  /\ gameDuration = 30
  /\ debugConfig = NoConfig
  /\ mounted = FALSE
  /\ currentIndex = 0
  /\ timeLeft = 0
  /\ answers = <<>>
  /\ isProcessing = FALSE
  /\ streak = 0
  /\ score = 0
  /\ earnedBonus = FALSE
  /\ showBonusRound = FALSE
  /\ bonusTimer = BONUS_SECONDS
  /\ bonusItems = <<>>
  /\ bonusResult = "none"
  /\ pending = "none"
  /\ endCalls = 0
  /\ reviewMounted = FALSE
  /\ showIdleWarning = FALSE
  /\ isWarningVisibleRef = FALSE
  /\ idleTimerRef = NoTimer
  /\ resetTimerRef = NoTimer
  /\ sinceRun = LongAgo
  /\ starting = "none"
  /\ sinceHandled = LongAgo
  /\ sinceActivity = LongAgo
  /\ idleFor = Never
  /\ sinceResume = Never
  /\ localConfig = <<>>
  /\ dbStore = EmptyStore
  /\ download = NoDownload
  /\ outcome = Outcome("none", "none", "none", 0, <<>>, FALSE)
  /\ storeOps = 0
  /\ env = Working
  /\ extension \in ExtensionInputs
  /\ lastCall = Call("onAdmin", TRUE)

\* const ext = getExtension(mimeType, item.url, item.type)
GetExtension ==
  /\ extension.ext = "none"
  /\ extension' = [extension EXCEPT !.ext = getExtension(extension.mimeType, extension.itemType)]
  /\ UNCHANGED <<appVars, screenVars, wdVars, starting, endCalls, lastCall, dbStore,
                 localConfig, download, outcome, storeOps, env>>

ExtensionNext == GetExtension

ExtensionSpec == ExtensionInit /\ [][ExtensionNext]_vars

\* ---------------------------------------------------------------- claims
\* A step that is an honoured handleAnswer: the handler ran and appended.
HonouredAnswerStep ==
  /\ lastCall' = Call("handleAnswer", TRUE)
  /\ Len(answers') = Len(answers) + 1

\* A step inside one session: the screen exists before and after it.
SessionStep == mounted /\ mounted'

\* C1: an honoured answer that is correct records and adds 100 * m points,
\* m = 4 if the incremented streak N >= 7, 2 if N >= 3, else 1; a wrong one
\* records 0 points and leaves the score unchanged; whatever the streak the
\* session started with.
C1_PointsByStreak ==
  [][ HonouredAnswerStep =>
        LET rec == answers'[Len(answers')]
            correct == (rec.guessedReal = gameItems[currentIndex + 1])
            N == streak + 1
            m == IF N >= 7 THEN 4 ELSE IF N >= 3 THEN 2 ELSE 1
        IN  IF correct
            THEN rec.pointsEarned = 100 * m /\ score' = score + 100 * m
            ELSE rec.pointsEarned = 0 /\ score' = score ]_vars

\* Every multiplier has been paid on top of a debug-seeded streak or none.
C1_Witness ==
  /\ mounted
  /\ lastCall = Call("handleAnswer", TRUE)
  /\ debugConfig.initialStreak = 5
  /\ Len(answers) = 2
  /\ answers[1].pointsEarned = 200
  /\ answers[2].pointsEarned = 400
  /\ score = 600

\* C2: an honoured correct answer increases streak by exactly 1, an honoured
\* wrong answer sets it to 0, and no other event of a session (clock tick,
\* presentation timeout, ignored call, bonus event, NEXT) changes it.
C2_StreakSteps ==
  [][ SessionStep =>
        IF HonouredAnswerStep
        THEN LET rec == answers'[Len(answers')]
             IN  IF rec.guessedReal = gameItems[currentIndex + 1]
                 THEN streak' = streak + 1
                 ELSE streak' = 0
        ELSE streak' = streak ]_vars

\* A wrong answer has reset a streak built by two correct ones.
C2_Witness ==
  /\ mounted
  /\ lastCall = Call("handleAnswer", TRUE)
  /\ debugConfig = NoConfig
  /\ Len(answers) = 3
  /\ answers[1].isCorrect /\ answers[2].isCorrect /\ ~answers[3].isCorrect
  /\ streak = 0

\* The scenario's session has ended with the log of the guesses real, real,
\* not real for A, B, C.
ScenarioPlayed ==
  /\ gameState = "RESULTS"
  /\ gameItems = ScenarioQueue
  /\ gameDuration = 30
  /\ debugConfig = NoConfig
  /\ Len(userAnswers) = 3
  /\ \A i \in 1..3 : userAnswers[i].itemId = i
  /\ userAnswers[1].guessedReal /\ userAnswers[2].guessedReal /\ ~userAnswers[3].guessedReal

ScenarioOutcome ==
  /\ <<userAnswers[1].isCorrect, userAnswers[2].isCorrect, userAnswers[3].isCorrect>>
       = <<TRUE, FALSE, FALSE>>
  /\ SumPoints(userAnswers) = 100
  /\ mounted => ~showBonusRound /\ bonusResult = "none"

\* C3: duration 30, queue [A(real), B(not real), C(real)], no debug config,
\* guesses real, real, not real: the session ends without a bonus round and
\* onEndGame receives a log of length 3 with isCorrect [true, false, false]
\* and points summing to 100.
C3_Scenario == ScenarioPlayed => ScenarioOutcome

C3_Witness == ScenarioPlayed /\ ScenarioOutcome /\ mounted /\ endCalls = 1

\* C4 (as claimed): onEndGame is invoked at most once in a session.
C4_EndedOnce == endCalls <= 1

C6_NoAnswerAfterRunning ==
  [][ (mounted /\ (gameState # "PLAYING" \/ showBonusRound)
         /\ lastCall'.op = "handleAnswer") =>
        /\ answers' = answers
        /\ score' = score
        /\ streak' = streak
        /\ currentIndex' = currentIndex ]_vars

\* C7: the qualification flag is set as soon as streak is 5 or more and is
\* never cleared during the session; and when the main clock reaches 0 with
\* the flag set and no bonus result, the bonus round is entered and
\* onEndGame is not invoked.
C7_BonusLatch ==
  [][ /\ (mounted' /\ streak' >= 5) => earnedBonus'
      /\ (SessionStep /\ earnedBonus) => earnedBonus'
      /\ (SessionStep /\ timeLeft > 0 /\ timeLeft' <= 0 /\ earnedBonus
            /\ bonusResult = "none")
           => (showBonusRound' /\ endCalls' = endCalls /\ gameState' = "PLAYING") ]_vars

\* The bonus round was entered on a streak that a wrong answer had reset.
C7_Witness ==
  /\ mounted
  /\ showBonusRound
  /\ bonusResult = "none"
  /\ streak = 0
  /\ ~debugConfig.forceBonusRound
  /\ endCalls = 0
  /\ answers # <<>>

\* The highest value streak took while the main-round log was produced.
RECURSIVE PeakStreak(_, _)
PeakStreak(start, log) ==
  IF log = <<>> THEN start
  ELSE LET rest == PeakStreak(IF log[1].isCorrect THEN start + 1 ELSE 0, Tail(log))
       IN  IF rest > start THEN rest ELSE start

NeverQualified ==
  /\ ~debugConfig.forceBonusRound
  /\ PeakStreak(debugConfig.initialStreak, answers) < 5

\* C8: without the force-bonus flag, the bonus round is entered only if
\* streak has been 5 or more; when the main clock reaches 0 in a session
\* where it never was, the session ends and onEndGame receives the log.
C8_NoBonusUnqualified ==
  [][ /\ (mounted' /\ showBonusRound' /\ ~showBonusRound /\ ~debugConfig'.forceBonusRound)
           => PeakStreak(debugConfig'.initialStreak, answers') >= 5
      /\ (SessionStep /\ timeLeft > 0 /\ timeLeft' <= 0 /\ NeverQualified)
           => (~showBonusRound' /\ gameState' = "RESULTS" /\ userAnswers' = answers'
                 /\ endCalls' = endCalls + 1) ]_vars

\* A session that reached streak 4, not 5, has ended at clock 0.
C8_Witness ==
  /\ mounted
  /\ gameState = "RESULTS"
  /\ ~showBonusRound
  /\ timeLeft <= 0
  /\ debugConfig.initialStreak = 3
  /\ PeakStreak(debugConfig.initialStreak, answers) = 4
  /\ userAnswers = answers
  /\ endCalls = 1

\* C9 (as claimed): the bonus round is entered only for a pool that holds
\* an authentic and a non-authentic item.
C9_BonusNeedsBothKinds ==
  (mounted /\ showBonusRound) =>
     /\ \E i \in DOMAIN gameItems : gameItems[i]
     /\ \E i \in DOMAIN gameItems : ~gameItems[i]

\* C10: with the bonus round shown and no result yet, selecting a
\* non-authentic item sets the result to success and adds exactly 1000 to
\* the score; selecting an authentic item, or the bonus timer reaching 0,
\* sets it to fail and leaves the score unchanged; nothing else sets it.
C10_BonusScoring ==
  [][ (SessionStep /\ showBonusRound /\ bonusResult = "none") =>
        IF lastCall' = Call("handleBonusAnswer", TRUE)
        THEN LET sel == answers'[Len(answers')].itemId
             IN  IF ~gameItems[sel]
                 THEN bonusResult' = "success" /\ score' = score + 1000
                 ELSE bonusResult' = "fail" /\ score' = score
        ELSE IF lastCall'.op = "bonusTick" /\ bonusTimer' <= 0
        THEN bonusResult' = "fail" /\ score' = score
        ELSE bonusResult' = "none" /\ score' = score ]_vars

\* The non-authentic card was selected and paid.
C10_Witness ==
  /\ mounted
  /\ showBonusRound
  /\ bonusResult = "success"
  /\ lastCall = Call("handleBonusAnswer", TRUE)
  /\ score = SumPoints(answers)
  /\ answers[Len(answers)].pointsEarned = 1000

C12_BonusRecord ==
  [][ (SessionStep /\ bonusResult = "none" /\ bonusResult' # "none") =>
        IF lastCall' = Call("handleBonusAnswer", TRUE)
        THEN /\ Len(answers') = Len(answers) + 1
             /\ SubSeq(answers', 1, Len(answers)) = answers
             /\ answers'[Len(answers')].itemId \in {bonusItems[1], bonusItems[2]}
        ELSE /\ lastCall'.op = "bonusTick"
             /\ bonusTimer' = 0
             /\ bonusResult' = "fail"
             /\ answers' = answers ]_vars

\* The bonus timer ran out with no selection.
C12_Witness ==
  /\ mounted
  /\ showBonusRound
  /\ bonusResult = "fail"
  /\ bonusTimer = 0
  /\ lastCall = Call("bonusTick", TRUE)

\* C13: once the bonus result is set, only the NEXT button invokes
\* onEndGame; every other step of the session, timers included, keeps the
\* bonus layout, the result, the score and the log.
C13_OnlyNextEnds ==
  [][ (SessionStep /\ showBonusRound /\ bonusResult' # "none") =>
        /\ endCalls' # endCalls => lastCall'.op = "next"
        /\ showBonusRound'
        /\ bonusResult # "none" =>
             (bonusResult' = bonusResult /\ score' = score /\ answers' = answers) ]_vars

\* The presentation timeout fired after the result was set and the session
\* is still running.
C13_Witness ==
  /\ mounted
  /\ showBonusRound
  /\ bonusResult # "none"
  /\ gameState = "PLAYING"
  /\ endCalls = 0
  /\ lastCall = Call("presentationTimeout", TRUE)

\* C14: the log is append-only: every step of a session leaves it
\* unchanged or extends it by exactly one record at its end.
C14_AppendOnly ==
  [][ SessionStep =>
        \/ answers' = answers
        \/ /\ Len(answers') = Len(answers) + 1
           /\ SubSeq(answers', 1, Len(answers)) = answers ]_vars

\* A bonus record was appended behind a main-round record.
C14_Witness ==
  /\ mounted
  /\ Len(answers) = 2
  /\ answers[1].isCorrect
  /\ answers[1].pointsEarned > 0
  /\ lastCall = Call("handleBonusAnswer", TRUE)

\* C15: once the bonus layout is shown, the only record ever appended is
\* the one of the bonus selection, at most once and at the end: no
\* main-round record follows, not even through a presentation timeout that
\* was pending when the main clock expired.
C15_BonusRecordLast ==
  [][ (SessionStep /\ showBonusRound) =>
        /\ showBonusRound'
        /\ lastCall' # Call("handleAnswer", TRUE)
        /\ \/ answers' = answers
           \/ /\ lastCall' = Call("handleBonusAnswer", TRUE)
              /\ bonusResult = "none"
              /\ bonusResult' # "none"
              /\ answers' = Append(answers, answers'[Len(answers')]) ]_vars

\* The timeout of the first answer fired in the bonus round and moved on
\* to the second item.
C15_Witness ==
  /\ mounted
  /\ showBonusRound
  /\ bonusResult = "none"
  /\ Len(answers) = 1
  /\ currentIndex = 1
  /\ lastCall = Call("presentationTimeout", TRUE)

\* C16 (as claimed): once onEndGame has been invoked, no timer callback of
\* the session fires and changes its item index, its clock or its
\* processing flag.
C16_TimersCancelled ==
  [][ (SessionStep /\ gameState # "PLAYING"
         /\ lastCall'.op \in {"presentationTimeout", "mainTick", "bonusTick"})
        => UNCHANGED <<currentIndex, timeLeft, isProcessing>> ]_vars

\* No activity event, no resume and no navigation since the screen mounted.
Undisturbed == idleFor # Never /\ reviewMounted /\ gameState = "REVIEW"

\* C17: with no activity after mount the watchdog stays without warning
\* until exactly IDLE_TIMEOUT ms have passed, the warning then appears
\* together with the grace timeout, and onBackToHome is invoked exactly
\* COUNTDOWN_DURATION ms later, at 75 s after mount and not before.
C17_IdleThenGrace ==
  [][ Undisturbed =>
        /\ idleFor <= IDLE_TIMEOUT + COUNTDOWN_DURATION
        /\ idleFor < IDLE_TIMEOUT =>
             (~showIdleWarning /\ resetTimerRef = NoTimer
                /\ idleTimerRef = IDLE_TIMEOUT - idleFor)
        /\ idleFor > IDLE_TIMEOUT => showIdleWarning
        /\ showIdleWarning =>
             (idleTimerRef = NoTimer
                /\ resetTimerRef = IDLE_TIMEOUT + COUNTDOWN_DURATION - idleFor)
        /\ (~showIdleWarning /\ showIdleWarning') =>
             (idleFor = IDLE_TIMEOUT /\ resetTimerRef' = COUNTDOWN_DURATION)
        /\ lastCall'.op = "graceTimeout" =>
             (idleFor = IDLE_TIMEOUT + COUNTDOWN_DURATION /\ gameState' = "WELCOME") ]_vars

\* The grace timeout of an undisturbed screen has called onBackToHome.
C17_Witness ==
  /\ reviewMounted
  /\ idleFor = IDLE_TIMEOUT + COUNTDOWN_DURATION
  /\ gameState = "WELCOME"
  /\ lastCall = Call("graceTimeout", TRUE)

\* C18: handleResumeGame in the warning hides it, cancels the pending
\* grace timeout and restarts the idle countdown from zero: no warning
\* follows earlier than IDLE_TIMEOUT ms after the resume and no
\* onBackToHome earlier than COUNTDOWN_DURATION ms after that.
C18_ResumeRestarts ==
  [][ /\ lastCall' = Call("handleResumeGame", TRUE) =>
           /\ showIdleWarning /\ ~showIdleWarning'
           /\ resetTimerRef' = NoTimer
           /\ idleTimerRef' = IDLE_TIMEOUT
           /\ gameState' = gameState
      /\ (sinceResume # Never /\ ~showIdleWarning /\ showIdleWarning') =>
           sinceResume >= IDLE_TIMEOUT
      /\ (sinceResume # Never /\ lastCall'.op = "graceTimeout") =>
           sinceResume >= IDLE_TIMEOUT + COUNTDOWN_DURATION ]_vars

\* The warning was resumed 5 s before its expiry and, a minute later, the
\* next warning has appeared.
C18_Witness ==
  /\ reviewMounted
  /\ showIdleWarning
  /\ sinceResume = IDLE_TIMEOUT
  /\ resetTimerRef = COUNTDOWN_DURATION
  /\ lastCall = Call("idleTimeout", TRUE)

\* C19 (as claimed): while the warning is shown an activity event changes
\* neither the warning nor the two timeouts; while it is not shown, an
\* event that passes the throttle restarts the idle countdown.
C19_PassiveIgnoredInWarning ==
  [][ lastCall'.op \in {"activity", "throttled"} =>
        IF showIdleWarning
        THEN UNCHANGED <<showIdleWarning, idleTimerRef, resetTimerRef, gameState>>
        ELSE sinceRun > THROTTLE_MS =>
               (idleTimerRef' = IDLE_TIMEOUT /\ resetTimerRef' = NoTimer) ]_vars

\* C20: once ReviewScreen is unmounted, from the warning or not, neither
\* timeout is pending: no warning is shown and onBackToHome is not invoked
\* afterwards.
C20_TeardownCancels ==
  [][ /\ ~reviewMounted' =>
           (idleTimerRef' = NoTimer /\ resetTimerRef' = NoTimer /\ ~showIdleWarning')
      /\ ~reviewMounted =>
           lastCall'.op \notin {"idleTimeout", "graceTimeout", "home"} ]_vars

\* The screen was left through Home 5 s into the warning and is unmounted.
C20_Witness ==
  /\ ~reviewMounted
  /\ idleFor = IDLE_TIMEOUT + 5000
  /\ gameState = "WELCOME"
  /\ lastCall = Call("reviewUnmount", TRUE)

\* C27: when the presentation timeout of an answer to the last item of the
\* queue fires, timeLeft becomes 0 and the session has ended or is in the
\* bonus round, whatever time was left; for any other item the index
\* advances by exactly 1 and the timeout leaves timeLeft alone.
C27_TimeoutAdvancesOrEnds ==
  [][ (SessionStep /\ lastCall'.op = "presentationTimeout") =>
        IF currentIndex = Len(gameItems) - 1
        THEN /\ timeLeft' = 0
             /\ currentIndex' = currentIndex
             /\ gameState' = "RESULTS" \/ showBonusRound'
        ELSE /\ currentIndex' = currentIndex + 1
             /\ timeLeft' = timeLeft ]_vars

\* The last item was answered with time left and its timeout ended the
\* session.
C27_Witness ==
  /\ mounted
  /\ gameState = "RESULTS"
  /\ ~showBonusRound
  /\ currentIndex = Len(gameItems) - 1
  /\ Len(gameItems) = 2
  /\ timeLeft = 0
  /\ endCalls = 1
  /\ lastCall = Call("presentationTimeout", TRUE)

\* C28 (as claimed, for the states before the bonus round): the k-th record
\* of the log references the k-th item of the queue, so no item has two
\* records and the log is no longer than the queue.
C28_OneRecordPerItem ==
  (mounted /\ ~showBonusRound) =>
     /\ Len(answers) <= Len(gameItems)
     /\ \A k \in DOMAIN answers : answers[k].itemId = k

\* C29: startGame with an empty collection goes to ADMIN and constructs no
\* session; every session it starts has a non-empty queue, index 0,
\* timeLeft equal to the duration, score 0, an empty log and the debug
\* initial streak (0 without debug configuration).
C29_SessionStart ==
  [][ lastCall'.op = "startGame" =>
        IF lastCall'.honoured
        THEN /\ gameState' = "PLAYING" /\ mounted'
             /\ Len(gameItems') > 0
             /\ currentIndex' = 0
             /\ timeLeft' = gameDuration'
             /\ score' = 0
             /\ answers' = <<>>
             /\ streak' = debugConfig'.initialStreak
             /\ debugConfig' \in {t.config : t \in TestGames} \cup {NoConfig}
        ELSE /\ gameState' = "ADMIN"
             /\ ~mounted' ]_vars

\* A debug session has just been constructed with its initial streak.
C29_Witness ==
  /\ mounted
  /\ gameState = "PLAYING"
  /\ lastCall = Call("startGame", TRUE)
  /\ debugConfig.initialStreak = 5
  /\ streak = 5
  /\ timeLeft = 30

\* C30: timeLeft stays within 0..duration, changes only while the session
\* runs outside the bonus round, and a tick takes exactly 1 off it (the
\* only other change is the timeout's reset to 0); bonusTimer stays within
\* 0..10, is 10 on entering the bonus round, loses exactly 1 per bonus tick
\* and does not change once the result is set.
C30_Clocks ==
  [][ SessionStep =>
        /\ timeLeft' \in 0..gameDuration'
        /\ bonusTimer' \in 0..BONUS_SECONDS
        /\ timeLeft' # timeLeft =>
             /\ gameState = "PLAYING" /\ ~showBonusRound
             /\ \/ lastCall'.op = "mainTick"
                \/ lastCall'.op = "presentationTimeout" /\ timeLeft' = 0
        /\ lastCall'.op = "mainTick" => timeLeft' = timeLeft - 1
        /\ (~showBonusRound /\ showBonusRound') => bonusTimer' = BONUS_SECONDS
        /\ lastCall'.op = "bonusTick" => bonusTimer' = bonusTimer - 1
        /\ bonusTimer' # bonusTimer =>
             (lastCall'.op = "bonusTick" /\ showBonusRound /\ bonusResult = "none") ]_vars

\* The bonus countdown has run while the main clock stood at 0.
C30_Witness ==
  /\ mounted
  /\ showBonusRound
  /\ timeLeft = 0
  /\ bonusTimer = 7
  /\ bonusResult = "none"
  /\ lastCall = Call("bonusTick", TRUE)

\* A step that is a store operation of the given name.
StoreStep(op) == storeOps' = storeOps + 1 /\ outcome'.op = op

\* The archive an import was called with.
FileOf(name) == IF name = "download" THEN download.archive ELSE PickedFiles[name]

\* C21: with the store open and the bundled manifest served, getAllItems
\* returns no id twice; an id that is in the store comes back as the stored
\* record, also when the bundled manifest has it too; an id of the bundled
\* manifest only comes back once; nothing else is returned.
C21_MergePrecedence ==
  [][ (StoreStep("getAllItems") /\ env' = Working) =>
        LET result == outcome'.items
        IN  /\ \A k, l \in DOMAIN result : result[k].id = result[l].id => k = l
            /\ \A id \in DOMAIN dbStore : \E k \in DOMAIN result : result[k] = dbStore[id]
            /\ \A k \in DOMAIN localConfig :
                 \E l \in DOMAIN result : result[l].id = localConfig[k].id
            /\ \A k \in DOMAIN result :
                 \/ result[k].id \in DOMAIN dbStore
                 \/ \E l \in DOMAIN localConfig :
                      result[k] = [localConfig[l] EXCEPT !.isCustom = TRUE] ]_vars

\* Id 1 is stored and bundled, ids 2, 3 and 4 bundled only: the stored
\* upload came back for id 1.
C21_Witness ==
  /\ outcome.op = "getAllItems"
  /\ env = Working
  /\ 1 \in DOMAIN dbStore
  /\ Len(localConfig) = 5
  /\ Len(outcome.items) = 4
  /\ outcome.items[1].id = 1
  /\ outcome.items[1].url.kind = "data"

\* C22: exportGamePack of an empty collection (an empty store and no
\* bundled item) throws "No items to export": no archive is built and no
\* download is triggered.
C22_EmptyExportFails ==
  [][ ( /\ StoreStep("exportGamePack")
        /\ env'.opens
        /\ dbStore = EmptyStore
        /\ (env'.response # "ok" \/ localConfig = <<>>) ) =>
        /\ outcome'.error = "No items to export"
        /\ ~outcome'.downloaded
        /\ download' = download ]_vars

\* An export of nothing has failed and there is no archive.
C22_Witness ==
  /\ outcome.op = "exportGamePack"
  /\ env = Working
  /\ outcome.error = "No items to export"
  /\ ~download.archive.exists
  /\ dbStore = EmptyStore
  /\ localConfig = <<>>

\* The export could fetch the item's media.
Resolvable(item) == item.url.kind \in {"data", "media"} /\ Fetch(item.url).found

\* After the import, the store has the item with its id, isReal, title and
\* media bytes.
Recovered(item) ==
  /\ item.id \in DOMAIN dbStore'
  /\ dbStore'[item.id].id = item.id
  /\ dbStore'[item.id].isReal = item.isReal
  /\ dbStore'[item.id].title = item.title
  /\ dbStore'[item.id].url.kind = "data"
  /\ dbStore'[item.id].url.bytes = Fetch(item.url).bytes

\* C23 (as claimed): importing the exported archive into an open store
\* recovers every exported item whose media was resolvable, and the import
\* count is the number of these items.
C23_RoundTripCount ==
  [][ (StoreStep("importGamePack") /\ outcome'.file = "download" /\ env'.opens) =>
        LET exported == download.exported
        IN  /\ outcome'.error = "none"
            /\ \A k \in DOMAIN exported : Resolvable(exported[k]) => Recovered(exported[k])
            /\ outcome'.count = Cardinality({k \in DOMAIN exported : Resolvable(exported[k])}) ]_vars

\* C23 (amended): importing the exported archive into an open store
\* recovers every exported item whose media was resolvable; the import
\* count is the number of exported items for which fetch() returned a
\* response at export (the media or an error page) plus the number of
\* items whose data URL could not be fetched, which travel inline in the
\* manifest and are saved as they are.
C23_RoundTrip ==
  [][ (StoreStep("importGamePack") /\ outcome'.file = "download" /\ env'.opens) =>
        LET exported == download.exported
        IN  /\ outcome'.error = "none"
            /\ \A k \in DOMAIN exported : Resolvable(exported[k]) => Recovered(exported[k])
            /\ outcome'.count =
                 Cardinality({k \in DOMAIN exported :
                                \/ exported[k].url.kind = "data"
                                \/ exported[k].url.kind = "media" /\ Fetch(exported[k].url).ok}) ]_vars

\* Two uploads were exported, the store emptied, and the import brought
\* both back with their bytes under an octet-stream data URL.
C23_Witness ==
  /\ outcome.op = "importGamePack"
  /\ env.opens
  /\ outcome.file = "download"
  /\ outcome.count = 2
  /\ Len(download.exported) = 2
  /\ download.exported[2].url = DataUrl("video/mp4", 2, TRUE)
  /\ 2 \in DOMAIN dbStore
  /\ dbStore[2].url = DataUrl("application/octet-stream", 2, TRUE)

\* C24: importGamePack of an archive with neither data.json nor
\* game_data.json, or whose manifest has no items list, throws the named
\* error and leaves the store as it was.
C24_ImportRejects ==
  [][ StoreStep("importGamePack") =>
        LET file == FileOf(outcome'.file)
            manifest == IF file.data.kind # "absent" THEN file.data ELSE file.game_data
        IN  /\ manifest.kind = "absent" =>
                 /\ outcome'.error = "Invalid Game Pack: missing data.json or game_data.json"
                 /\ dbStore' = dbStore
            /\ manifest.kind \in {"missing", "notlist"} =>
                 /\ outcome'.error = "Invalid Game Pack: corrupt data format"
                 /\ dbStore' = dbStore ]_vars

\* A pack whose items is not a list was rejected by a store that holds an
\* item.
C24_Witness ==
  /\ outcome.op = "importGamePack"
  /\ outcome.file = "notList"
  /\ outcome.error = "Invalid Game Pack: corrupt data format"
  /\ dbStore # EmptyStore

\* C25 (as claimed): in every exported archive each manifest item with a
\* media/ url has a file at that path, and each file under media/ is the
\* url of a manifest item.
C25_PackageInvariant ==
  download.archive.exists =>
    LET items == download.archive.data.items
        media == download.archive.media
    IN  /\ \A k \in DOMAIN items :
             items[k].url.kind = "media" => \E f \in media : f.path = items[k].url.path
        /\ \A f \in media : \E k \in DOMAIN items : items[k].url = MediaUrl(f.path[1], f.path[2])

\* C26 (as claimed): an importGamePack that throws leaves the store as it
\* was before the call.
C26_ImportAllOrNothing ==
  [][ (StoreStep("importGamePack") /\ outcome'.error # "none") => dbStore' = dbStore ]_vars

\* C31: whenever the bonus layout is entered with a queue that has an
\* authentic and a non-authentic item, two distinct items of the queue are
\* presented, the first authentic and the second not, and the bonus
\* countdown starts at 10.
C31_BonusItems ==
  [][ ( /\ mounted'
        /\ showBonusRound'
        /\ ~(mounted /\ showBonusRound)
        /\ \E i \in DOMAIN gameItems' : gameItems'[i]
        /\ \E i \in DOMAIN gameItems' : ~gameItems'[i] ) =>
        /\ Len(bonusItems') = 2
        /\ bonusItems'[1] \in DOMAIN gameItems'
        /\ bonusItems'[2] \in DOMAIN gameItems'
        /\ bonusItems'[1] # bonusItems'[2]
        /\ gameItems'[bonusItems'[1]]
        /\ ~gameItems'[bonusItems'[2]]
        /\ bonusTimer' = BONUS_SECONDS
        /\ BONUS_SECONDS = 10 ]_vars

\* The bonus layout has just been entered from the scenario's queue with
\* its third item as the authentic card.
C31_Witness ==
  /\ mounted
  /\ showBonusRound
  /\ gameItems = ScenarioQueue
  /\ bonusItems = <<3, 2>>
  /\ bonusTimer = BONUS_SECONDS
  /\ bonusResult = "none"

\* C32 (as claimed): an activity event that arrives within one second of
\* the last event the throttle let through restarts no timer; and while no
\* warning is shown the idle timeout is never due earlier than IDLE_TIMEOUT
\* minus one second after the most recent activity event.
C32_ThrottledRestarts ==
  [][ /\ (lastCall'.op \in {"activity", "throttled"} /\ sinceHandled <= THROTTLE_MS) =>
           UNCHANGED <<idleTimerRef, resetTimerRef>>
      /\ ( /\ reviewMounted'
           /\ ~showIdleWarning'
           /\ idleTimerRef' # NoTimer
           /\ sinceActivity' <= THROTTLE_MS ) =>
           sinceActivity' + idleTimerRef' >= IDLE_TIMEOUT - THROTTLE_MS ]_vars

\* C40 (as claimed): once handleBackToHome has put the app on WELCOME, the
\* app does not enter PLAYING through a startGame call that was issued
\* before handleBackToHome ran.
C40_NoStaleStart ==
  [][ (gameState = "WELCOME" /\ gameState' = "PLAYING") => starting # "stale" ]_vars

\* C33: when the store cannot be opened getAllItems throws and returns
\* nothing; when the store opens and the bundled manifest is absent or
\* unreadable it returns the stored items, each once, and no error.
C33_StoreFailureSurfaces ==
  [][ StoreStep("getAllItems") =>
        /\ ~env'.opens => (outcome'.error # "none" /\ outcome'.items = <<>>)
        /\ (env'.opens /\ env'.response # "ok") =>
             /\ outcome'.error = "none"
             /\ Len(outcome'.items) = Cardinality(DOMAIN dbStore)
             /\ \A id \in DOMAIN dbStore :
                  \E k \in DOMAIN outcome'.items : outcome'.items[k] = dbStore[id] ]_vars

\* The open failed for a store that holds an item beside a bundled
\* manifest of five entries.
C33_Witness ==
  /\ outcome.op = "getAllItems"
  /\ ~env.opens
  /\ outcome.error = "open failed"
  /\ dbStore # EmptyStore
  /\ Len(localConfig) = 5

\* C34 (as claimed): an export of a non-empty collection does not fail
\* whatever media cannot be resolved; the manifest has one entry per item
\* of the collection, in order, with the same id; an item whose media
\* could not be resolved keeps its url; an item whose media was resolved
\* has the url media/<id>.<ext> and the archive holds its bytes there.
C34_ExportDegrades ==
  [][ ( /\ StoreStep("exportGamePack")
        /\ env'.opens
        /\ Len(getAllItems(dbStore, LocalManifest(env'.response, localConfig))) > 0 ) =>
        LET allItems == getAllItems(dbStore, LocalManifest(env'.response, localConfig))
            items == download'.archive.data.items
            media == download'.archive.media
        IN  /\ outcome'.error = "none"
            /\ outcome'.downloaded
            /\ download'.archive.game_data = download'.archive.data
            /\ Len(items) = Len(allItems)
            /\ \A k \in DOMAIN allItems :
                 /\ items[k].id = allItems[k].id
                 /\ IF Resolvable(allItems[k])
                    THEN /\ items[k].url.kind = "media"
                         /\ items[k].url.path[1] = allItems[k].id
                         /\ \E f \in media :
                              /\ f.path = items[k].url.path
                              /\ f.bytes = Fetch(allItems[k].url).bytes
                    ELSE items[k].url = allItems[k].url ]_vars

\* C35 (as claimed): getExtension returns jpg, png, gif, webp, mp4, webm
\* for image/jpeg, image/png, image/gif, image/webp, video/mp4, video/webm,
\* and for any other or a missing MIME type the default of the item type:
\* jpg for an image, mp4 for a video.
C35_TableOrDefault ==
  extension.ext # "none" =>
    LET m == extension.mimeType.text
    IN  extension.ext =
          CASE m = "image/jpeg" -> "jpg"
            [] m = "image/png" -> "png"
            [] m = "image/gif" -> "gif"
            [] m = "image/webp" -> "webp"
            [] m = "video/mp4" -> "mp4"
            [] m = "video/webm" -> "webm"
            [] OTHER -> IF extension.itemType = "video" THEN "mp4" ELSE "jpg"

\* C35 (amended): whatever the case and the parameters of the MIME type,
\* getExtension returns the table entry for image/jpeg, image/jpg,
\* image/png, image/gif, image/webp, video/mp4 and video/webm; for a type
\* that is not in the table, jpg if it contains jpeg or jpg, png if it
\* contains png, mp4 if it contains mp4, whatever the item type; and for
\* any other or a missing type the default of the item type.
C35_ExtensionLookup ==
  extension.ext # "none" =>
    LET m == extension.mimeType.text
    IN  extension.ext =
          CASE m \in {"image/jpeg", "image/jpg", "image/pjpeg"} -> "jpg"
            [] m \in {"image/png", "image/x-png"} -> "png"
            [] m = "image/gif" -> "gif"
            [] m = "image/webp" -> "webp"
            [] m \in {"video/mp4", "audio/mp4"} -> "mp4"
            [] m = "video/webm" -> "webm"
            [] OTHER -> IF extension.itemType = "video" THEN "mp4" ELSE "jpg"

\* A video item whose type IMAGE/X-PNG; ... is not in the table got png.
C35_Witness ==
  extension = ExtensionCall(MimeType("image/x-png", TRUE, TRUE), "video", "png")

\* C36: an importGamePack that returns a count has, for the items of the
\* manifest in order, upserted every item with a media/ url whose file is
\* in the archive (with the file's bytes as a data URL) and every item
\* with a data URL (as it is), and skipped every other item, going on with
\* the items after it; the count is the number of upserts, every upserted
\* record is marked custom, and the rest of the store is as before.
C36_ImportPerItem ==
  [][ (StoreStep("importGamePack") /\ outcome'.error = "none") =>
        LET file == FileOf(outcome'.file)
            items == (IF file.data.kind # "absent" THEN file.data ELSE file.game_data).items
            HasFile(k) == \E f \in file.media : f.path = items[k].url.path
            Upserted == {k \in DOMAIN items :
                           \/ items[k].url.kind = "data"
                           \/ items[k].url.kind = "media" /\ HasFile(k)}
            Last(k) == \A l \in Upserted : items[l].id = items[k].id => l <= k
        IN  /\ outcome'.count = Cardinality(Upserted)
            /\ \A k \in Upserted :
                 Last(k) =>
                   /\ items[k].id \in DOMAIN dbStore'
                   /\ dbStore'[items[k].id].isCustom
                   /\ dbStore'[items[k].id].url.kind = "data"
                   /\ [dbStore'[items[k].id] EXCEPT !.url = NoUrl, !.isCustom = FALSE]
                        = [items[k] EXCEPT !.url = NoUrl, !.isCustom = FALSE]
                   /\ items[k].url.kind = "data" => dbStore'[items[k].id].url = items[k].url
                   /\ items[k].url.kind = "media" =>
                        \E f \in file.media :
                          /\ f.path = items[k].url.path
                          /\ dbStore'[items[k].id].url.bytes = f.bytes
            /\ DOMAIN dbStore' = DOMAIN dbStore \cup {items[k].id : k \in Upserted}
            /\ \A id \in DOMAIN dbStore :
                 (\A k \in Upserted : items[k].id # id) => dbStore'[id] = dbStore[id] ]_vars

\* The exported manifest had an item with a data URL, an item whose file
\* is not in the archive, an item with a remote url and an item with its
\* file: the import went past the two it skipped and stored the other two.
C36_Witness ==
  /\ outcome.op = "importGamePack"
  /\ outcome.file = "download"
  /\ outcome.error = "none"
  /\ outcome.count = 2
  /\ Len(download.archive.data.items) = 4
  /\ download.archive.data.items[1].url.kind = "data"
  /\ download.archive.data.items[2].url = MediaUrl(3, "png")
  /\ download.archive.data.items[3].url = OtherUrl
  /\ download.archive.data.items[4].url = MediaUrl(2, "jpg")
  /\ DOMAIN dbStore = {1, 2}
  /\ dbStore[1] = download.archive.data.items[1]
  /\ dbStore[2].isCustom
  /\ dbStore[2].url = DataUrl("application/octet-stream", ErrorPage, TRUE)

C38_NoAnswerLost ==
  [][ /\ (mounted /\ endCalls' = endCalls + 1) => userAnswers' = answers'
      /\ (mounted /\ ~mounted') => userAnswers = answers ]_vars

\* C39: a session nobody touches, with timers that fire: if it has not
\* qualified for the bonus round it ends through onEndGame; if it has, it
\* comes to the bonus layout with the result fail; and a main countdown
\* at t > 0 comes to t - 1, as does a running bonus countdown.
C39_UnattendedSessionEnds ==
  /\ (mounted /\ gameState = "PLAYING" /\ ~earnedBonus)
       ~> (gameState = "RESULTS" /\ endCalls >= 1)
  /\ (mounted /\ gameState = "PLAYING" /\ earnedBonus)
       ~> (mounted /\ showBonusRound /\ bonusResult = "fail")
  /\ \A t \in 1..30 :
       (mounted /\ ~showBonusRound /\ timeLeft = t) ~> (timeLeft = t - 1)
  /\ \A t \in 1..BONUS_SECONDS :
       (mounted /\ showBonusRound /\ bonusResult = "none" /\ bonusTimer = t)
         ~> (bonusTimer = t - 1)

\* A forced bonus round nobody played: both countdowns ran to 0, the
\* result is fail, the log is empty and onEndGame has not been called.
C39_Witness ==
  /\ mounted
  /\ gameState = "PLAYING"
  /\ debugConfig.forceBonusRound
  /\ timeLeft = 0
  /\ showBonusRound
  /\ bonusTimer = 0
  /\ bonusResult = "fail"
  /\ answers = <<>>
  /\ endCalls = 0

====
